---- MODULE Spec2Model ----
(***************************************************************************)
(* Analytics and derived-metrics engine of performance-os.                 *)
(*                                                                         *)
(* The engine is a set of pure functions over in-memory collections.  Each *)
(* function is an operator computed as the source computes it; a           *)
(* specification draws the function's inputs in its initial states and its *)
(* actions call the function and record what it returned in `ret`.         *)
(*                                                                         *)
(* Numbers.  Weights are decimals with two places (strength_sets.weight is *)
(* DECIMAL(6,2)); a weight is modelled as its count of hundredths of a kg. *)
(* An estimated 1RM is weight * (30 + reps) / 30, so 1RM values are held   *)
(* as counts of 1/3000 kg (OneRMUnits): every value the code computes is   *)
(* then an integer and the arithmetic is exact.  An optional field that is *)
(* absent (undefined / null) is None; a date is a day number and the       *)
(* absent or empty date string is NoDate.                                  *)
(***************************************************************************)
EXTENDS Integers, Sequences, FiniteSets, TLC

VARIABLES
    weight,      \* argument of epley1RM: hundredths of a kg
    reps,        \* argument of epley1RM
    totalLoad,   \* argument of classifyWeekLoad
    sessions,    \* argument of classifyWeekLoad
    sets,        \* the strength-set collection handed to the aggregators
    metrics,     \* the body-metric collection handed to computeBodyPRs
    exerciseId,  \* argument of detectPlateau
    activities,  \* the activity collection handed to the load functions
    tzOffset,    \* the runtime's local time zone: hours ahead of UTC
    cardioInput, \* argument of calcCardioCalories
    strengthInput, \* argument of calcStrengthCalories
    activityType,  \* argument of calcActivityCalories
    durationMins,  \* argument of calcActivityCalories
    weightKg,    \* body-weight argument of the calorie estimators
    points,      \* the weight points handed to calcWeightTrend
    lastWeightDate, \* the date of the latest weight log (NoDate: none)
    now,         \* the wall clock (Date.now()): hours since the start of day 0
    sheet,       \* the state of the LogWorkoutSheet component
    localStorage, \* the item stored under 'perf-os-draft' (NoDraft: none)
    db,          \* the rows of the activities and strength_sets tables
    op,          \* the function called last ("none" before any call)
    ret          \* what that call returned

vars == <<weight, reps, totalLoad, sessions, sets, metrics, exerciseId,
          activities, tzOffset, cardioInput, strengthInput, activityType,
          durationMins, weightKg, points, lastWeightDate, now,
          sheet, localStorage, db, op, ret>>

---------------------------------------------------------------------------
\* Units and encodings

WeightUnits == 100
RepsDivisor == 30
OneRMUnits  == WeightUnits * RepsDivisor

None   == -1
NoDate == 0

Kg(x) == x * WeightUnits
RM(x) == x * OneRMUnits

\* JavaScript truthiness of an optional number: neither absent nor 0.
Truthy(x) == x # None /\ x # 0

\* x ?? 0
OrZero(x) == IF x = None THEN 0 ELSE x

\* Math.round of the value n / OneRMUnits kg: the nearest integer, halves up.
MathRound(n) == (2 * n + OneRMUnits) \div (2 * OneRMUnits)

Max2(a, b) == IF a >= b THEN a ELSE b
Min2(a, b) == IF a <= b THEN a ELSE b

---------------------------------------------------------------------------
\* Bounds of the inputs

MaxTenths   == 30
MaxReps     == 12
MaxLoad     == 310
MaxSessions == 9

\* 0.0 .. 3.0 kg in steps of 0.1 kg, and some plate weights.
WeightsIn == {10 * k : k \in 0..MaxTenths}
             \cup {Kg(100), Kg(105), Kg(110), Kg(117), 10250}

---------------------------------------------------------------------------
\* lib/utils: epley1RM, in 1/3000 kg

\* (a variant that does not round)
epley1RM_noRound(w, r) == IF r = 1 THEN w * RepsDivisor ELSE w * (RepsDivisor + r)

epley1RM(w, r) ==
    IF r = 1 THEN w * RepsDivisor
    ELSE RM(MathRound(w * (RepsDivisor + r)))

\* engines/calorieEngine: epley1RM, in 1/3000 kg (never rounded)
calorie_epley1RM(w, r) ==
    IF r <= 0 THEN w * RepsDivisor
    ELSE w * (RepsDivisor + r)

\* types/index.ts: classifyWeekLoad
\* (a variant that tests for overtraining first)
classifyWeekLoad_overFirst(load, n) ==
    IF load > 300 \/ n > 7 THEN "overtraining"
    ELSE IF n < 2 \/ load < 60 THEN "undertraining"
    ELSE "optimal"

classifyWeekLoad(load, n) ==
    IF n < 2 \/ load < 60 THEN "undertraining"
    ELSE IF load > 300 \/ n > 7 THEN "overtraining"
    ELSE "optimal"

---------------------------------------------------------------------------
\* Sequences

Front(s) == SubSeq(s, 1, Len(s) - 1)
Last(s)  == s[Len(s)]
Range(s) == {s[i] : i \in 1..Len(s)}

\* reduce((sum, x) => sum + x, 0) over a sequence of numbers
RECURSIVE SumSeq(_)
SumSeq(s) == IF s = <<>> THEN 0 ELSE SumSeq(Front(s)) + Last(s)

\* Math.max(0, ...s)
RECURSIVE MaxWith0(_)
MaxWith0(s) == IF s = <<>> THEN 0 ELSE Max2(MaxWith0(Front(s)), Last(s))

\* Map.get: the index of the first of the keys that is k, 0 when none is.
FirstIndex(keys, k) ==
    IF \E i \in 1..Len(keys) : keys[i] = k
    THEN CHOOSE i \in 1..Len(keys) :
             /\ keys[i] = k
             /\ \A j \in 1..(i - 1) : keys[j] # k
    ELSE 0

\* Array.prototype.sort (a stable sort) with a comparator that orders by a
\* number: the indices 1..k of rank in ascending order of rank, an index
\* going behind every earlier index of the same or a lower rank.
RECURSIVE SortedIndices(_, _)
SortedIndices(rank, k) ==
    IF k = 0 THEN <<>>
    ELSE LET prev == SortedIndices(rank, k - 1)
             p    == Cardinality({i \in 1..(k - 1) : rank[i] <= rank[k]})
         IN SubSeq(prev, 1, p) \o <<k>> \o SubSeq(prev, p + 1, k - 1)

StableSort(s, rank) ==
    LET order == SortedIndices(rank, Len(s))
    IN [i \in 1..Len(s) |-> s[order[i]]]

\* reduce((b, s) => score(s) > score(b) ? s : b) with no initial value, on
\* a non-empty sequence: the index of the first element of the best score.
RECURSIVE ReduceBest(_, _)
ReduceBest(score, k) ==
    IF k = 1 THEN 1
    ELSE LET b == ReduceBest(score, k - 1)
         IN IF score[k] > score[b] THEN k ELSE b

---------------------------------------------------------------------------
\* Strength sets

\* strength_sets.volume, the generated column
GeneratedVolume(r, w) == OrZero(r) * OrZero(w)

StrengthSet(e, name, w, r, d, c) ==
    [exercise_id |-> e, exercise_name |-> name, weight |-> w, reps |-> r,
     volume |-> GeneratedVolume(r, w), activity_date |-> d, created_at |-> c]

NoName == ""

\* exerciseMap[id] ?? 'Unknown'
ExerciseMap == [e \in {"e1"} |-> "Bench"]
ExerciseName(e) == IF e \in DOMAIN ExerciseMap THEN ExerciseMap[e] ELSE "Unknown"

HasBoth(s) == Truthy(s.weight) /\ Truthy(s.reps)

\* The keys of byExercise in insertion order: the exercise ids in the order
\* of their first set.
RECURSIVE ExerciseOrder(_)
ExerciseOrder(ss) ==
    IF ss = <<>> THEN <<>>
    ELSE LET prev == ExerciseOrder(Front(ss))
             e    == Last(ss).exercise_id
         IN IF e \in Range(prev) THEN prev ELSE Append(prev, e)

GroupOf(ss, e) == SelectSeq(ss, LAMBDA s : s.exercise_id = e)

SetVolume(s)    == OrZero(s.volume)
SetWeight(s)    == OrZero(s.weight)
SetOneRM(s)     == IF HasBoth(s) THEN epley1RM(s.weight, s.reps) ELSE 0
SetDate(s)      == s.activity_date

\* sort((a, b) => b.total_volume - a.total_volume)
ByVolumeDesc(summaries) == [i \in DOMAIN summaries |-> 0 - summaries[i].total_volume]

Volumes(exSets) == [i \in DOMAIN exSets |-> SetVolume(exSets[i])]
Weights(exSets) == [i \in DOMAIN exSets |-> SetWeight(exSets[i])]
OneRMs(exSets)  == [i \in DOMAIN exSets |-> SetOneRM(exSets[i])]
Dates(exSets)   == [i \in DOMAIN exSets |-> SetDate(exSets[i])]

\* (a variant that takes the weight of the group's first set as max_weight)
ExerciseSummary_firstWeight(e, exSets) ==
    [exercise_id    |-> e,
     exercise_name  |-> ExerciseName(e),
     total_volume   |-> SumSeq(Volumes(exSets)),
     max_weight     |-> SetWeight(exSets[1]),
     estimated_1rm  |-> MaxWith0(OneRMs(exSets)),
     set_count      |-> Len(exSets),
     last_performed |-> MaxWith0(Dates(exSets))]

ExerciseSummary(e, exSets) ==
    [exercise_id    |-> e,
     exercise_name  |-> ExerciseName(e),
     total_volume   |-> SumSeq(Volumes(exSets)),
     max_weight     |-> MaxWith0(Weights(exSets)),
     estimated_1rm  |-> MaxWith0(OneRMs(exSets)),
     set_count      |-> Len(exSets),
     last_performed |-> MaxWith0(Dates(exSets))]

calcExerciseSummaries(ss) ==
    LET order == ExerciseOrder(ss)
        summaries == [i \in 1..Len(order) |->
                          ExerciseSummary(order[i], GroupOf(ss, order[i]))]
    IN StableSort(summaries, ByVolumeDesc(summaries))

\* The entries of `best` in insertion order after the loop over the sets.
EntryKeys(entries) == [i \in DOMAIN entries |-> entries[i].exercise_id]

\* (a variant in which a later set of equal estimate replaces the earlier)
RECURSIVE BestByExercise_lastWins(_)
BestByExercise_lastWins(ss) ==
    IF ss = <<>> THEN <<>>
    ELSE LET prev == BestByExercise_lastWins(Front(ss))
             s    == Last(ss)
         IN IF ~Truthy(s.weight) \/ ~Truthy(s.reps) THEN prev
            ELSE LET oneRM == epley1RM(s.weight, s.reps)
                     entry == [exercise_id |-> s.exercise_id, set |-> s, oneRM |-> oneRM]
                     i     == FirstIndex(EntryKeys(prev), s.exercise_id)
                 IN IF i = 0 THEN Append(prev, entry)
                    ELSE IF oneRM >= prev[i].oneRM THEN [prev EXCEPT ![i] = entry]
                    ELSE prev

RECURSIVE BestByExercise(_)
BestByExercise(ss) ==
    IF ss = <<>> THEN <<>>
    ELSE LET prev == BestByExercise(Front(ss))
             s    == Last(ss)
         IN IF ~Truthy(s.weight) \/ ~Truthy(s.reps) THEN prev
            ELSE LET oneRM == epley1RM(s.weight, s.reps)
                     entry == [exercise_id |-> s.exercise_id, set |-> s, oneRM |-> oneRM]
                     i     == FirstIndex(EntryKeys(prev), s.exercise_id)
                 IN IF i = 0 THEN Append(prev, entry)
                    ELSE IF oneRM > prev[i].oneRM THEN [prev EXCEPT ![i] = entry]
                    ELSE prev

PRRecord(entry) ==
    [exercise_id   |-> entry.exercise_id,
     exercise_name |-> ExerciseName(entry.exercise_id),
     weight        |-> entry.set.weight,
     reps          |-> entry.set.reps,
     estimated_1rm |-> entry.oneRM,
     achieved_on   |-> entry.set.activity_date]

\* sort((a, b) => b.estimated_1rm - a.estimated_1rm)
ByOneRMDesc(records) == [i \in DOMAIN records |-> 0 - records[i].estimated_1rm]

findPersonalRecords(ss) ==
    LET best    == BestByExercise(ss)
        records == [i \in DOMAIN best |-> PRRecord(best[i])]
    IN StableSort(records, ByOneRMDesc(records))

\* engines/prEngine: computeStrengthPRs

\* s.activity?.date ?? s.created_at.slice(0, 10)
dateOf(s) == IF s.activity_date = NoDate THEN s.created_at ELSE s.activity_date

\* x ?? undefined
OrUndefined(x) == x

HasWeight(s)       == OrZero(s.weight) > 0
\* (a variant that does not ask for reps)
HasWeightAndReps_weightOnly(s) == OrZero(s.weight) > 0
HasWeightAndReps(s) == OrZero(s.weight) > 0 /\ OrZero(s.reps) > 0

\* What each reduce compares: s.weight ?? 0, epley1RM(s.weight, s.reps),
\* s.reps ?? 0.
ByWeight(exSets) == [i \in DOMAIN exSets |-> OrZero(exSets[i].weight)]
ByOneRM(exSets)  == [i \in DOMAIN exSets |->
                        calorie_epley1RM(exSets[i].weight, exSets[i].reps)]
ByReps(exSets)   == [i \in DOMAIN exSets |-> OrZero(exSets[i].reps)]

StrengthPR(type, value, e, name, best) ==
    [type |-> type, value |-> value, exercise_id |-> e, exercise_name |-> name,
     date |-> dateOf(best), weight |-> OrUndefined(best.weight),
     reps |-> OrUndefined(best.reps)]

ExercisePRs(e, exSets) ==
    LET name       == IF exSets[1].exercise_name = NoName THEN e
                      ELSE exSets[1].exercise_name
        withWeight == SelectSeq(exSets, HasWeight)
        withBoth   == SelectSeq(exSets, HasWeightAndReps)
        maxWeight  == IF Len(withWeight) > 0
                      THEN LET best == withWeight[ReduceBest(ByWeight(withWeight), Len(withWeight))]
                           IN <<StrengthPR("max_weight", best.weight, e, name, best)>>
                      ELSE <<>>
        best1RM    == IF Len(withBoth) > 0
                      THEN LET best == withBoth[ReduceBest(ByOneRM(withBoth), Len(withBoth))]
                           IN <<StrengthPR("estimated_1rm",
                                   RM(MathRound(calorie_epley1RM(best.weight, best.reps))),
                                   e, name, best)>>
                      ELSE <<>>
        maxReps    == IF Len(withBoth) > 0
                      THEN LET best == withBoth[ReduceBest(ByReps(withBoth), Len(withBoth))]
                           IN <<StrengthPR("max_reps", best.reps, e, name, best)>>
                      ELSE <<>>
    IN maxWeight \o best1RM \o maxReps

computeStrengthPRs(ss) ==
    LET order == ExerciseOrder(ss)
        RECURSIVE Result(_)
        Result(k) == IF k = 0 THEN <<>>
                     ELSE Result(k - 1) \o ExercisePRs(order[k], GroupOf(ss, order[k]))
    IN Result(Len(order))

\* engines/prEngine: computeBodyPRs

BodyMetric(d, w, waist, bf) == [date |-> d, weight |-> w, waist |-> waist, body_fat |-> bf]

\* m.field < b.field as the reduce's comparison: the lower value scores
\* higher.
ByLowest(rows, field) == [i \in DOMAIN rows |-> 0 - rows[i][field]]

\* (a variant that keeps every recorded value, zero included)
LowestOf_anyRecorded(ms, field, type, unit) ==
    LET with == SelectSeq(ms, LAMBDA m : m[field] # None)
    IN IF Len(with) > 0
       THEN LET best == with[ReduceBest(ByLowest(with, field), Len(with))]
            IN <<[type |-> type, value |-> best[field], date |-> best.date, unit |-> unit]>>
       ELSE <<>>

\* metrics.filter(m => (m.field ?? 0) > 0) reduced to its first lowest row
LowestOf(ms, field, type, unit) ==
    LET with == SelectSeq(ms, LAMBDA m : OrZero(m[field]) > 0)
    IN IF Len(with) > 0
       THEN LET best == with[ReduceBest(ByLowest(with, field), Len(with))]
            IN <<[type |-> type, value |-> best[field], date |-> best.date, unit |-> unit]>>
       ELSE <<>>

computeBodyPRs(ms) ==
    LowestOf(ms, "weight", "lowest_weight", "kg")
    \o LowestOf(ms, "waist", "smallest_waist", "cm")
    \o LowestOf(ms, "body_fat", "best_body_fat", "%")

\* types/index.ts: detectPlateau

PlateauMinSets     == 6
PlateauMinSessions == 3
PlateauPercent     == 3

\* (a variant that leaves the sets in the order of the input)
ByDate_inputOrder(exSets) == [i \in DOMAIN exSets |-> 0]

\* sort((a, b) => a.activity_date.localeCompare(b.activity_date))
ByDate(exSets) == [i \in DOMAIN exSets |-> exSets[i].activity_date]

SessionKeys(entries) == [i \in DOMAIN entries |-> entries[i].date]

\* The entries of sessionBest in insertion order after the loop over exSets.
RECURSIVE SessionBest(_)
SessionBest(exSets) ==
    IF exSets = <<>> THEN <<>>
    ELSE LET prev == SessionBest(Front(exSets))
             s    == Last(exSets)
         IN IF ~Truthy(s.weight) \/ ~Truthy(s.reps) \/ s.activity_date = NoDate THEN prev
            ELSE LET oneRM == epley1RM(s.weight, s.reps)
                     i     == FirstIndex(SessionKeys(prev), s.activity_date)
                     old   == IF i = 0 THEN 0 ELSE prev[i].oneRM
                     entry == [date |-> s.activity_date, oneRM |-> oneRM]
                 IN IF oneRM > old
                    THEN IF i = 0 THEN Append(prev, entry) ELSE [prev EXCEPT ![i] = entry]
                    ELSE prev

SessionValues(entries) == [i \in DOMAIN entries |-> entries[i].oneRM]

RECURSIVE MinOf(_)
MinOf(s) == IF Len(s) = 1 THEN s[1] ELSE Min2(MinOf(Front(s)), Last(s))

\* (a variant without the check on the number of dated sets)
detectPlateau_noMinSets(ss, id) ==
    LET dated    == SelectSeq(ss, LAMBDA s : s.exercise_id = id /\ s.activity_date # NoDate)
        exSets   == StableSort(dated, ByDate(dated))
        session  == SessionValues(SessionBest(exSets))
        n        == Len(session)
        last3    == SubSeq(session, n - PlateauMinSessions + 1, n)
        max      == MaxWith0(last3)
        min      == MinOf(last3)
    IN IF n < PlateauMinSessions THEN FALSE
       ELSE max > 0 /\ (max - min) * 100 < PlateauPercent * max

detectPlateau(ss, id) ==
    LET dated    == SelectSeq(ss, LAMBDA s : s.exercise_id = id /\ s.activity_date # NoDate)
        exSets   == StableSort(dated, ByDate(dated))
        session  == SessionValues(SessionBest(exSets))
        n        == Len(session)
        last3    == SubSeq(session, n - PlateauMinSessions + 1, n)
        max      == MaxWith0(last3)
        min      == MinOf(last3)
    IN IF Len(exSets) < PlateauMinSets THEN FALSE
       ELSE IF n < PlateauMinSessions THEN FALSE
       ELSE max > 0 /\ (max - min) * 100 < PlateauPercent * max

---------------------------------------------------------------------------
\* Training load (types/index.ts)

ActivityTypes == {"strength", "cardio", "sport", "mobility", "custom"}

Activity(d, type, dur) == [date |-> d, type |-> type, duration |-> dur]

\* LOAD_PER_MIN[type] ?? 0.6, in tenths
LoadPerMin(type) ==
    CASE type = "strength" -> 10
      [] type = "cardio"   -> 8
      [] type = "sport"    -> 7
      [] type = "mobility" -> 3
      [] type = "custom"   -> 6
      [] OTHER             -> 6

DEFAULT_DURATION == 30

\* The multipliers are IEEE doubles: the double written m/10 lies below
\* m/10 by DoubleError(m)/10 x 2^-53 (above it when negative).
DoubleError(m) ==
    CASE m = 7 -> 4
      [] m = 3 -> 1
      [] m = 6 -> 2
      [] m = 8 -> -4
      [] OTHER -> 0

\* The largest power of two, from p on, that is at most n / 10.
RECURSIVE PowerOfTwoBelow(_, _)
PowerOfTwoBelow(n, p) == IF 20 * p <= n THEN PowerOfTwoBelow(n, 2 * p) ELSE p

\* Math.round(duration * multiplier) for a whole duration >= 0 and a
\* multiplier of m tenths.  The double product is off the exact product
\* n / 10 by far less than 0.1, so it rounds as n / 10 does unless n / 10 is
\* an exact half; there the product is the half itself (and rounds up)
\* unless the multiplier's error, times the duration, exceeds half the
\* spacing of the doubles below the half (P x 2^-53): then it rounds down.
RoundedProduct(d, m) ==
    LET n == d * m
    IN IF n % 10 = 5 /\ d * DoubleError(m) > 10 * PowerOfTwoBelow(n, 1)
       THEN n \div 10
       ELSE (2 * n + 10) \div 20

\* (a variant that takes the default for a duration of 0 too: || for ??)
calcActivityLoad_orDefault(activity) ==
    RoundedProduct(IF Truthy(activity.duration) THEN activity.duration
                   ELSE DEFAULT_DURATION,
                   LoadPerMin(activity.type))

calcActivityLoad(activity) ==
    RoundedProduct(IF activity.duration = None THEN DEFAULT_DURATION
                   ELSE activity.duration,
                   LoadPerMin(activity.type))

\* A Date is an instant: hours since 00:00 UTC of day 0.  Day 1 is a Monday
\* (2024-01-01), so the day number modulo 7 is the weekday as getDay()
\* numbers it, Sunday being 0.
\* The calendar day of an instant in the runtime's local time zone
LocalDay(t) == (t + tzOffset) \div 24

\* Date.prototype.getDay(), read in local time
GetDay(t) == LocalDay(t) % 7

\* lib/utils getWeekStart: setDate(getDate() - day + (day === 0 ? -6 : 1))
\* moves the local calendar day, setHours(0, 0, 0, 0) goes to its local
\* midnight.
getWeekStart(t) ==
    LET day  == GetDay(t)
        diff == LocalDay(t) - day + (IF day = 0 THEN -6 ELSE 1)
    IN diff * 24 - tzOffset

\* format(getWeekStart(new Date(activity.date)), 'yyyy-MM-dd'): new Date of
\* a 'YYYY-MM-DD' string is midnight UTC of that day, and date-fns format
\* writes the local calendar day.
WeekStartOf(activity) == LocalDay(getWeekStart(activity.date * 24))

WeekKeys(entries) == [i \in DOMAIN entries |-> entries[i].week_start]

\* (a variant that adds every load to strength_load)
AddToWeek_allStrength(entry, activity) ==
    [entry EXCEPT !.strength_load = @ + calcActivityLoad(activity),
                  !.session_count = @ + 1]

\* The body of the loop of calcWeeklyLoads on the week's entry
AddToWeek(entry, activity) ==
    LET load == calcActivityLoad(activity)
    IN [entry EXCEPT
           !.strength_load = @ + (IF activity.type = "strength" THEN load ELSE 0),
           !.cardio_load   = @ + (IF activity.type = "strength" THEN 0 ELSE load),
           !.session_count = @ + 1]

\* The entries of weekMap in insertion order after the loop.
RECURSIVE WeekMap(_)
WeekMap(acts) ==
    IF acts = <<>> THEN <<>>
    ELSE LET prev      == WeekMap(Front(acts))
             weekStart == WeekStartOf(Last(acts))
             i         == FirstIndex(WeekKeys(prev), weekStart)
             old       == IF i = 0
                          THEN [week_start |-> weekStart, strength_load |-> 0,
                                cardio_load |-> 0, session_count |-> 0]
                          ELSE prev[i]
             entry     == AddToWeek(old, Last(acts))
         IN IF i = 0 THEN Append(prev, entry) ELSE [prev EXCEPT ![i] = entry]

WeeklyLoad(data) ==
    LET total == data.strength_load + data.cardio_load
    IN [week_start    |-> data.week_start,
        total_load    |-> total,
        strength_load |-> data.strength_load,
        cardio_load   |-> data.cardio_load,
        session_count |-> data.session_count,
        status        |-> classifyWeekLoad(total, data.session_count)]

\* (a variant that returns the weeks in the order of their first activity)
calcWeeklyLoads_unsorted(acts) ==
    LET entries == WeekMap(acts)
    IN [i \in DOMAIN entries |-> WeeklyLoad(entries[i])]

\* ... .sort((a, b) => a.week_start.localeCompare(b.week_start))
calcWeeklyLoads(acts) ==
    LET entries == WeekMap(acts)
        loads   == [i \in DOMAIN entries |-> WeeklyLoad(entries[i])]
    IN StableSort(loads, WeekKeys(loads))

---------------------------------------------------------------------------
\* Body composition (types/index.ts).  A weight is a count of hundredths of
\* a kg (body_metrics.weight is DECIMAL(5,2)), a body-fat value a count of
\* tenths of a percent (body_fat is DECIMAL(4,1)); the changes reported are
\* counts of tenths.

\* sort((a, b) => a.date.localeCompare(b.date)) of rows or of points
ByRowDate(rows) == [i \in DOMAIN rows |-> rows[i].date]

\* WEIGHT_THRESHOLD (0.5) and BF_THRESHOLD (0.3), in tenths
WEIGHT_THRESHOLD == 5
BF_THRESHOLD     == 3

\* Math.round(x * 10) / 10 of x = n hundredths, in tenths: halves up
Round1(n) == (2 * n + 10) \div 20

\* (a variant that compares the changes themselves, not the monthly rates)
CompositionTrend_unscaled(wc, bf, periodDays) ==
    LET weightLimit == WEIGHT_THRESHOLD * 10
        bfLimit     == BF_THRESHOLD
    IN IF wc > weightLimit /\ bf < bfLimit THEN "bulking"
       ELSE IF wc < 0 - weightLimit /\ bf < 0 - bfLimit THEN "cutting"
       ELSE IF wc < weightLimit /\ wc > 0 - weightLimit /\ bf < 0 - bfLimit
            THEN "recomping"
       ELSE "maintaining"

\* The classification of a weight change of wc hundredths of a kg and a
\* body-fat change of bf tenths of a percent over periodDays days.  The
\* rates per month are wc * 30 / periodDays and bf * 30 / periodDays; each
\* comparison is cross-multiplied, the weight side by 1000 * periodDays and
\* the body-fat side by 100 * periodDays.
CompositionTrend(wc, bf, periodDays) ==
    LET weightPerMonth == wc * 30 * 10
        bfPerMonth     == bf * 30 * 10
        weightLimit    == WEIGHT_THRESHOLD * 100 * periodDays
        bfLimit        == BF_THRESHOLD * 10 * periodDays
    IN IF weightPerMonth > weightLimit /\ bfPerMonth < bfLimit THEN "bulking"
       ELSE IF weightPerMonth < 0 - weightLimit /\ bfPerMonth < 0 - bfLimit
            THEN "cutting"
       ELSE IF weightPerMonth < weightLimit /\ weightPerMonth > 0 - weightLimit
               /\ bfPerMonth < 0 - bfLimit
            THEN "recomping"
       ELSE "maintaining"

\* (a variant that reports the changes per month)
analyzeComposition_perMonth(ms) ==
    LET sorted == StableSort(ms, ByRowDate(ms))
    IN IF Len(sorted) < 2
       THEN [trend |-> "insufficient_data", weight_change_kg |-> 0,
             body_fat_change_pct |-> 0, period_days |-> 0]
       ELSE LET first        == sorted[1]
                last         == sorted[Len(sorted)]
                periodDays   == Max2(1, last.date - first.date)
                weightChange == OrZero(last.weight) - OrZero(first.weight)
                bfChange     == OrZero(last.body_fat) - OrZero(first.body_fat)
            IN [trend               |-> CompositionTrend(weightChange, bfChange, periodDays),
                weight_change_kg    |-> Round1((weightChange * 30) \div periodDays),
                body_fat_change_pct |-> (bfChange * 30) \div periodDays,
                period_days         |-> periodDays]

\* (a variant that wants 3 rows)
analyzeComposition_min3(ms) ==
    LET sorted == StableSort(ms, ByRowDate(ms))
    IN IF Len(sorted) < 3
       THEN [trend |-> "insufficient_data", weight_change_kg |-> 0,
             body_fat_change_pct |-> 0, period_days |-> 0]
       ELSE LET first        == sorted[1]
                last         == sorted[Len(sorted)]
                periodDays   == Max2(1, last.date - first.date)
                weightChange == OrZero(last.weight) - OrZero(first.weight)
                bfChange     == OrZero(last.body_fat) - OrZero(first.body_fat)
            IN [trend               |-> CompositionTrend(weightChange, bfChange, periodDays),
                weight_change_kg    |-> Round1(weightChange),
                body_fat_change_pct |-> bfChange,
                period_days         |-> periodDays]

\* periodDays is Math.max(1, Math.ceil(ms / 86400000)) of two UTC midnights:
\* the difference of the day numbers.  body_fat_change_pct is
\* Math.round(bfChange * 10) / 10 of a change that has one decimal.
analyzeComposition(ms) ==
    LET sorted == StableSort(ms, ByRowDate(ms))
    IN IF Len(sorted) < 2
       THEN [trend |-> "insufficient_data", weight_change_kg |-> 0,
             body_fat_change_pct |-> 0, period_days |-> 0]
       ELSE LET first        == sorted[1]
                last         == sorted[Len(sorted)]
                periodDays   == Max2(1, last.date - first.date)
                weightChange == OrZero(last.weight) - OrZero(first.weight)
                bfChange     == OrZero(last.body_fat) - OrZero(first.body_fat)
            IN [trend               |-> CompositionTrend(weightChange, bfChange, periodDays),
                weight_change_kg    |-> Round1(weightChange),
                body_fat_change_pct |-> bfChange,
                period_days         |-> periodDays]

---------------------------------------------------------------------------
\* Calorie engine (engines/calorieEngine.ts).  A MET value is a count of
\* tenths, a body weight a count of hundredths of a kg, a distance a count
\* of tenths of a km and a duration a whole number of minutes;
\* duration_hrs is held as a count of seconds (1/3600 h).

\* CARDIO_SPEED_MET without its last entry (maxSpeedKmh, met), whose
\* maxSpeedKmh is Infinity and whose met is SPRINT_MET
CARDIO_SPEED_MET == <<
    <<5, 35>>, <<7, 50>>, <<9, 70>>, <<11, 95>>, <<14, 115>> >>
SPRINT_MET == 140

\* CARDIO_KEYWORD_MET in the order of its keys
CARDIO_KEYWORD_MET == <<
    <<"run", 90>>, <<"jog", 70>>, <<"cycl", 80>>, <<"bike", 80>>, <<"swim", 70>>,
    <<"row", 70>>, <<"walk", 35>>, <<"hiit", 100>>, <<"sport", 70>> >>
CARDIO_DEFAULT_MET == 60

\* STRENGTH_INTENSITY_MET (maxIntensity in hundredths, met)
STRENGTH_INTENSITY_MET == << <<60, 30>>, <<75, 45>>, <<85, 60>>, <<100, 80>> >>
STRENGTH_DEFAULT_MET == 45

\* ACTIVITY_TYPE_MET[activityType] ?? ACTIVITY_TYPE_MET.custom
ActivityTypeMet(type) ==
    CASE type = "strength" -> 45
      [] type = "cardio"   -> 70
      [] type = "sport"    -> 70
      [] type = "mobility" -> 25
      [] type = "custom"   -> 50
      [] OTHER             -> 50

SET_DURATION_SECS  == 45
REST_DURATION_SECS == 90

\* The met of the first entry of a table whose limit is not exceeded by the
\* value num / den (den > 0, limits in units of 1 / scale), else the last met.
FirstBracket(table, num, den, scale, last) ==
    LET hits == {i \in DOMAIN table : num * scale <= table[i][1] * den}
    IN IF hits = {} THEN last
       ELSE table[CHOOSE i \in hits : \A j \in hits : i <= j][2]

\* speedToMET(distance / duration_hrs): the speed in km/h is
\* (distance / 10) * 60 / duration
speedToMET(distance, duration) ==
    FirstBracket(CARDIO_SPEED_MET, distance * 60, 10 * duration, 1, SPRINT_MET)

\* intensityToMET of the intensity num / den
intensityToMET(num, den) ==
    FirstBracket(STRENGTH_INTENSITY_MET, num, den, 100, 80)

\* detectCardioMET; notes are held as the set of the keywords that the
\* lower-cased text includes, absent notes as the empty set (notes ?? '').
detectCardioMET(notes) ==
    LET hits == {i \in DOMAIN CARDIO_KEYWORD_MET : CARDIO_KEYWORD_MET[i][1] \in notes}
    IN IF hits = {} THEN CARDIO_DEFAULT_MET
       ELSE CARDIO_KEYWORD_MET[CHOOSE i \in hits : \A j \in hits : i <= j][2]

\* Math.round(n / d) for d > 0: halves up
RoundDiv(n, d) == (2 * n + d) \div (2 * d)

\* { calories: Math.round(met * weightKg * duration_hrs), met, method,
\*   duration_hrs } for a duration of mins minutes
CalorieResult(met, w, mins, method) ==
    [calories     |-> RoundDiv(met * w * mins, 10 * WeightUnits * 60),
     met          |-> met,
     method       |-> method,
     duration_hrs |-> mins * 60]

calcCardioCalories(input, w) ==
    IF input.duration <= 0 \/ w <= 0
    THEN [calories |-> 0, met |-> 0, method |-> "cardio_type_fallback",
          duration_hrs |-> 0]
    ELSE IF Truthy(input.distance) /\ input.distance > 0
         THEN CalorieResult(speedToMET(input.distance, input.duration), w,
                            input.duration, "cardio_speed_met")
         ELSE CalorieResult(detectCardioMET(input.notes), w, input.duration,
                            "cardio_type_fallback")

\* The intensities s.weight / epley1RM(s.weight, s.reps) of sets of positive
\* weight and reps, each 30 / (30 + reps), summed as a fraction <<num, den>>.
RECURSIVE SumIntensity(_)
SumIntensity(validSets) ==
    IF validSets = <<>> THEN <<0, 1>>
    ELSE LET prev == SumIntensity(Front(validSets))
             r    == Last(validSets).reps
         IN <<prev[1] * (RepsDivisor + r) + RepsDivisor * prev[2],
              prev[2] * (RepsDivisor + r)>>

CalorieOneRMs(validSets) ==
    [i \in DOMAIN validSets |-> calorie_epley1RM(validSets[i].weight, validSets[i].reps)]

\* Math.round((totalSets * (SET_DURATION_SECS + REST_DURATION_SECS)) / 60)
EstimatedDurationMins(totalSets) ==
    RoundDiv(totalSets * (SET_DURATION_SECS + REST_DURATION_SECS), 60)

calcStrengthCalories(input, w) ==
    IF w <= 0
    THEN [calories |-> 0, met |-> STRENGTH_DEFAULT_MET,
          method |-> "strength_intensity", duration_hrs |-> 0]
    ELSE LET validSets == SelectSeq(input.sets, LAMBDA s : s.weight > 0 /\ s.reps > 0)
             totalSets == Max2(Len(input.sets), 1)
             mins      == IF input.duration = None
                          THEN EstimatedDurationMins(totalSets)
                          ELSE input.duration
             method    == IF Truthy(input.duration) THEN "strength_intensity"
                          ELSE "strength_duration"
             best1RM   == MaxWith0(CalorieOneRMs(validSets))
             sum       == SumIntensity(validSets)
             met       == IF best1RM > 0
                          THEN intensityToMET(sum[1], sum[2] * Len(validSets))
                          ELSE STRENGTH_DEFAULT_MET
         IN IF Len(validSets) = 0
            THEN CalorieResult(STRENGTH_DEFAULT_MET, w, mins, method)
            ELSE CalorieResult(met, w, mins, method)

calcActivityCalories(type, mins, w) ==
    CalorieResult(ActivityTypeMet(type), w, mins, "cardio_type_fallback")

---------------------------------------------------------------------------
\* Weight trend (engines/metabolismEngine.ts).  A weight is a count of
\* hundredths of a kg, rate_kg_per_week a count of hundredths of a kg.

WeightPoint(d, w) == [date |-> d, weight |-> w]

\* The null that calcWeightTrend returns for "no trend"
NullTrend == [null |-> TRUE]

MIN_SPAN_DAYS == 3

\* STABLE_THRESHOLD_KG (0.1), in hundredths
STABLE_THRESHOLD_KG == 10

\* (a variant that compares the daily rate with the weekly threshold)
WeightTrend_perDay(deltaKg, spanDays) ==
    LET absDelta == IF deltaKg < 0 THEN 0 - deltaKg ELSE deltaKg
    IN [direction |->
            IF absDelta < STABLE_THRESHOLD_KG * spanDays THEN "stable"
            ELSE IF deltaKg < 0 THEN "losing" ELSE "gaining",
        rate_kg_per_week       |-> RoundDiv(deltaKg * 7, spanDays),
        estimated_deficit_kcal |-> RoundDiv(deltaKg * 77, spanDays)]

\* The trend over spanDays days of a change of deltaKg hundredths of a kg:
\* ratePerWeek = deltaKg / spanDays * 7, estimated_deficit_kcal =
\* Math.round(deltaKg / spanDays * 7700).
WeightTrend(deltaKg, spanDays) ==
    LET absDelta == IF deltaKg < 0 THEN 0 - deltaKg ELSE deltaKg
    IN [direction |->
            IF absDelta * 7 < STABLE_THRESHOLD_KG * spanDays THEN "stable"
            ELSE IF deltaKg < 0 THEN "losing" ELSE "gaining",
        rate_kg_per_week       |-> RoundDiv(deltaKg * 7, spanDays),
        estimated_deficit_kcal |-> RoundDiv(deltaKg * 77, spanDays)]

\* (a variant that takes the points in the order given)
calcWeightTrend_unsorted(pts) ==
    IF Len(pts) < 2 THEN NullTrend
    ELSE LET first    == pts[1]
             last     == pts[Len(pts)]
             spanDays == Max2(last.date - first.date, 1)
         IN IF spanDays < MIN_SPAN_DAYS THEN NullTrend
            ELSE WeightTrend(last.weight - first.weight, spanDays)

calcWeightTrend(pts) ==
    IF Len(pts) < 2 THEN NullTrend
    ELSE LET sorted   == StableSort(pts, ByRowDate(pts))
             first    == sorted[1]
             last     == sorted[Len(sorted)]
             spanDays == Max2(last.date - first.date, 1)
         IN IF spanDays < MIN_SPAN_DAYS THEN NullTrend
            ELSE WeightTrend(last.weight - first.weight, spanDays)

\* Server-side analytics (supabase/migrations/002_analytics_functions.sql)
\* over the stored strength sets.  NULL is None.  The order among rows of
\* equal sort key, and the row numbered 1 among the sets of equal estimate,
\* are the server's choice: each function is the set of the results the
\* server can return.

\* ss.weight * (1.0 + COALESCE(ss.reps, 0) / 30.0), NULL for a NULL weight
sql_estimated_1rm(s) ==
    IF s.weight = None THEN None ELSE s.weight * (RepsDivisor + OrZero(s.reps))

\* MAX(...) of an aggregate: NULL values are skipped, NULL when none is left
SqlMax(values) ==
    IF values \subseteq {None} THEN None
    ELSE CHOOSE v \in values \ {None} : \A x \in values \ {None} : x <= v

\* ORDER BY key DESC: the rows in every order that is descending in key
OrderByDesc(rows, key) ==
    {q \in [1..Cardinality(rows) -> rows] :
        /\ \A i, j \in DOMAIN q : i # j => q[i] # q[j]
        /\ \A i, j \in DOMAIN q : i < j => q[i][key] >= q[j][key]}

\* GROUP BY ss.exercise_id, e.name
SummaryRow(ss, e) ==
    LET group == {i \in DOMAIN ss : ss[i].exercise_id = e}
        any   == CHOOSE i \in group : TRUE
    IN [exercise_id    |-> e,
        exercise_name  |-> ss[any].exercise_name,
        total_volume   |-> SumSeq(Volumes(GroupOf(ss, e))),
        max_weight     |-> SqlMax({ss[i].weight : i \in group}),
        estimated_1rm  |-> SqlMax({sql_estimated_1rm(ss[i]) : i \in group}),
        set_count      |-> Cardinality(group),
        last_performed |-> SqlMax({ss[i].activity_date : i \in group})]

get_exercise_summaries(ss) ==
    OrderByDesc({SummaryRow(ss, e) : e \in {ss[i].exercise_id : i \in DOMAIN ss}},
                "total_volume")

\* The rows of `ranked`, and for each exercise in it a row with rn = 1
Ranked(ss) == {i \in DOMAIN ss : ss[i].weight # None /\ ss[i].reps # None}

RankedFirst(ss) ==
    LET ids == {ss[i].exercise_id : i \in Ranked(ss)}
    IN {f \in [ids -> Ranked(ss)] :
           \A e \in ids :
               /\ ss[f[e]].exercise_id = e
               /\ \A i \in Ranked(ss) :
                      ss[i].exercise_id = e
                          => sql_estimated_1rm(ss[i]) <= sql_estimated_1rm(ss[f[e]])}

RankedRow(s) ==
    [exercise_id   |-> s.exercise_id,
     exercise_name |-> s.exercise_name,
     weight        |-> s.weight,
     reps          |-> s.reps,
     estimated_1rm |-> sql_estimated_1rm(s),
     achieved_on   |-> s.activity_date]

get_personal_records(ss) ==
    UNION {OrderByDesc({RankedRow(ss[f[e]]) : e \in DOMAIN f}, "estimated_1rm") :
              f \in RankedFirst(ss)}

\* Rolling 4-week average load (analytics/trainingLoad.ts):
\* Math.round(sum of total_load over weeklyLoads.slice(-4) / their number)
get4WeekAvgLoad(weeklyLoads) ==
    LET n     == Len(weeklyLoads)
        last4 == SubSeq(weeklyLoads, Max2(n - 3, 1), n)
        loads == [i \in DOMAIN last4 |-> last4[i].total_load]
    IN IF Len(last4) = 0 THEN 0
       ELSE RoundDiv(SumSeq(loads), Len(last4))

---------------------------------------------------------------------------
\* Staleness of the weight data (engines/metabolismEngine.ts,
\* engines/intelligenceEngine.ts).  new Date('YYYY-MM-DD') is midnight UTC
\* of the day, Date.now() is `now`; both are counted in hours.

\* (Date.now() - new Date(date).getTime()), in hours
AgeHours(date) == now - date * 24

STALE_DAYS == 14
WARN_DAYS  == 7

\* The null that dataFreshnessWarning returns for "no warning"
NullWarning == [null |-> TRUE]

isWeightStale(date) ==
    IF date = NoDate THEN TRUE
    ELSE AgeHours(date) > STALE_DAYS * 24

\* null is None
daysSinceMetric(date) ==
    IF date = NoDate THEN None
    ELSE AgeHours(date) \div 24

\* The warning is its wording and the day count it prints.
dataFreshnessWarning(date) ==
    IF date = NoDate THEN [text |-> "Log your weight"]
    ELSE LET days == AgeHours(date) \div 24
         IN IF days > STALE_DAYS
            THEN [text |-> "may be inaccurate", days |-> days]
            ELSE IF days > WARN_DAYS
                 THEN [text |-> "consider logging an update", days |-> days]
                 ELSE NullWarning

---------------------------------------------------------------------------
\* The workout sheet (components/LogWorkoutSheet.tsx): the sets logged in
\* the sheet, the draft kept in localStorage and the rows saved by
\* handleFinish.

\* localStorage.getItem(DRAFT_KEY) = null, draftToRestore = null
NoDraft == [null |-> TRUE]

LoggedSet(uid, r, w) ==
    [uid |-> uid, exercise_id |-> "e1", exercise_name |-> "Bench",
     reps |-> r, weight |-> w]

\* savedAt is left out: whether the draft is under a day old is decided
\* when the sheet opens.
WorkoutDraft(t, d, ls) == [type |-> t, date |-> d, loggedSets |-> ls]

\* toISODate(new Date())
Today == 1

\* The component as constructed: the initial value of each useState
ClosedSheet ==
    [open |-> FALSE, type |-> "strength", date |-> Today, loggedSets |-> <<>>,
     editUid |-> None, draftToRestore |-> NoDraft, saving |-> FALSE,
     awaiting |-> "none", activity |-> None]

EmptyDb == [activities |-> <<>>, strength_sets |-> <<>>]

\* The item under DRAFT_KEY after saveDraft(ls, t, d)
saveDraft(ls, t, d) == IF Len(ls) = 0 THEN NoDraft ELSE WorkoutDraft(t, d, ls)

\* `${Date.now()}-${Math.random()}`: a uid no set in the sheet, in the
\* stored draft or in the draft to restore has
UidsOf(draft) == IF draft = NoDraft THEN {} ELSE {s.uid : s \in Range(draft.loggedSets)}

FreshUid ==
    LET used == {s.uid : s \in Range(sheet.loggedSets)}
                    \cup UidsOf(localStorage) \cup UidsOf(sheet.draftToRestore)
    IN CHOOSE u \in 1..(Cardinality(used) + 1) : u \notin used

\* The state resetForm leaves
resetForm(s) ==
    [s EXCEPT !.type = "strength", !.date = Today, !.loggedSets = <<>>,
              !.editUid = None, !.draftToRestore = NoDraft]

---------------------------------------------------------------------------
\* Defaults of the inputs a specification does not draw

NoSets    == sets = <<>> /\ exerciseId = "e1"
NoMetrics == metrics = <<>>
NoCall    == op = "none" /\ ret = None

NoActivities == activities = <<>> /\ tzOffset = 0
NoCardioInput   == [duration |-> 0, distance |-> None, notes |-> {}]
NoStrengthInput == [sets |-> <<>>, duration |-> None]
NoCalories   == /\ cardioInput = NoCardioInput /\ strengthInput = NoStrengthInput
                /\ activityType = "custom" /\ durationMins = 0 /\ weightKg = 0
NoPoints     == points = <<>>
NoClock      == /\ lastWeightDate = NoDate /\ now = 0
                /\ sheet = ClosedSheet /\ localStorage = NoDraft /\ db = EmptyDb
NoNumbers    == weight = 0 /\ reps = 0 /\ totalLoad = 0 /\ sessions = 0

EngineInputs == <<weight, reps, totalLoad, sessions, sets, metrics, exerciseId,
                  activities, tzOffset, cardioInput, strengthInput, activityType,
                  durationMins, weightKg, points, lastWeightDate, now>>

Inputs == <<EngineInputs, sheet, localStorage, db>>

---------------------------------------------------------------------------
\* Weekly load classification

InitLoad ==
    /\ totalLoad \in 0..MaxLoad
    /\ sessions \in 0..MaxSessions
    /\ weight = 0 /\ reps = 0
    /\ NoSets /\ NoMetrics /\ NoActivities /\ NoCalories /\ NoPoints /\ NoClock /\ NoCall

Call_classifyWeekLoad ==
    /\ op' = "classifyWeekLoad"
    /\ ret' = classifyWeekLoad(totalLoad, sessions)
    /\ UNCHANGED Inputs

NextLoad == Call_classifyWeekLoad

SpecLoad == InitLoad /\ [][NextLoad]_vars

---------------------------------------------------------------------------
\* One-rep-max estimation

InitEpley ==
    /\ weight \in WeightsIn
    /\ reps \in 0..MaxReps
    /\ totalLoad = 0 /\ sessions = 0
    /\ NoSets /\ NoMetrics /\ NoActivities /\ NoCalories /\ NoPoints /\ NoClock /\ NoCall

Call_epley1RM ==
    /\ op' = "epley1RM"
    /\ ret' = epley1RM(weight, reps)
    /\ UNCHANGED Inputs

Call_calorie_epley1RM ==
    /\ op' = "calorie_epley1RM"
    /\ ret' = calorie_epley1RM(weight, reps)
    /\ UNCHANGED Inputs

NextEpley == Call_epley1RM \/ Call_calorie_epley1RM

SpecEpley == InitEpley /\ [][NextEpley]_vars

---------------------------------------------------------------------------
\* Aggregation of strength sets

MaxSets == 3

\* (weight, reps) of the sets of exercise e1 and of exercise e2
LiftsE1 == {<<Kg(100), 5>>, <<Kg(105), 5>>, <<Kg(110), 3>>, <<Kg(117), 1>>,
            <<None, 5>>, <<Kg(120), None>>, <<0, 7>>, <<Kg(125), 0>>}
LiftsE2 == {<<Kg(100), 5>>, <<Kg(117), 1>>, <<None, 8>>}

SetPool ==
    {StrengthSet("e1", "Bench", l[1], l[2], d, 3) : l \in LiftsE1, d \in {1, 2}}
    \cup {StrengthSet("e2", NoName, l[1], l[2], d, 3) : l \in LiftsE2, d \in {NoDate, 1}}

SeqsUpTo(S, n) == UNION {[1..k -> S] : k \in 0..n}

InitSets ==
    /\ sets \in SeqsUpTo(SetPool, MaxSets)
    /\ exerciseId = "e1"
    /\ weight = 0 /\ reps = 0 /\ totalLoad = 0 /\ sessions = 0
    /\ NoMetrics /\ NoActivities /\ NoCalories /\ NoPoints /\ NoClock /\ NoCall

Call_calcExerciseSummaries ==
    /\ op' = "calcExerciseSummaries"
    /\ ret' = calcExerciseSummaries(sets)
    /\ UNCHANGED Inputs

Call_findPersonalRecords ==
    /\ op' = "findPersonalRecords"
    /\ ret' = findPersonalRecords(sets)
    /\ UNCHANGED Inputs

Call_computeStrengthPRs ==
    /\ op' = "computeStrengthPRs"
    /\ ret' = computeStrengthPRs(sets)
    /\ UNCHANGED Inputs

NextSets ==
    \/ Call_calcExerciseSummaries
    \/ Call_findPersonalRecords
    \/ Call_computeStrengthPRs

SpecSets == InitSets /\ [][NextSets]_vars

---------------------------------------------------------------------------
\* Body-metric records

MaxMetrics == 3

\* body_metrics is UNIQUE(user_id, date): the rows of one user have
\* pairwise distinct dates.
MetricDates  == 1..MaxMetrics
MetricValues == {<<w, waist, bf>> : w \in {None, 70, 80}, waist \in {0, 90}, bf \in {None, 20}}

DistinctDates(k) ==
    {ds \in [1..k -> MetricDates] : \A i, j \in 1..k : i # j => ds[i] # ds[j]}

InitBody ==
    /\ \E k \in 0..MaxMetrics : \E ds \in DistinctDates(k), vs \in [1..k -> MetricValues] :
           metrics = [i \in 1..k |-> BodyMetric(ds[i], vs[i][1], vs[i][2], vs[i][3])]
    /\ weight = 0 /\ reps = 0 /\ totalLoad = 0 /\ sessions = 0
    /\ NoSets /\ NoActivities /\ NoCalories /\ NoPoints /\ NoClock /\ NoCall

Call_computeBodyPRs ==
    /\ op' = "computeBodyPRs"
    /\ ret' = computeBodyPRs(metrics)
    /\ UNCHANGED Inputs

NextBody == Call_computeBodyPRs

SpecBody == InitBody /\ [][NextBody]_vars

---------------------------------------------------------------------------
\* Plateau detection

MaxPlateauSets == 6

PlateauPool ==
    {StrengthSet("e1", "Bench", Kg(100), 5, d, 5) : d \in {1, 2, 3}}
    \cup {StrengthSet("e1", "Bench", Kg(110), 5, 4, 5),
          StrengthSet("e1", "Bench", None, 5, 2, 5),
          StrengthSet("e1", "Bench", Kg(100), 5, NoDate, 5),
          StrengthSet("e2", NoName, Kg(100), 5, 1, 5)}

InitPlateau ==
    /\ sets \in SeqsUpTo(PlateauPool, MaxPlateauSets)
    /\ exerciseId = "e1"
    /\ weight = 0 /\ reps = 0 /\ totalLoad = 0 /\ sessions = 0
    /\ NoMetrics /\ NoActivities /\ NoCalories /\ NoPoints /\ NoClock /\ NoCall

Call_detectPlateau ==
    /\ op' = "detectPlateau"
    /\ ret' = detectPlateau(sets, exerciseId)
    /\ UNCHANGED Inputs

NextPlateau == Call_detectPlateau

SpecPlateau == InitPlateau /\ [][NextPlateau]_vars

---------------------------------------------------------------------------
\* Load of one activity

MaxDuration == 90

InitActivityLoad ==
    /\ \E type \in ActivityTypes, dur \in {None} \cup 0..MaxDuration :
           activities = <<Activity(1, type, dur)>>
    /\ tzOffset = 0
    /\ NoNumbers /\ NoSets /\ NoMetrics /\ NoCalories /\ NoPoints /\ NoClock /\ NoCall

Call_calcActivityLoad ==
    /\ op' = "calcActivityLoad"
    /\ ret' = calcActivityLoad(activities[1])
    /\ UNCHANGED Inputs

NextActivityLoad == Call_calcActivityLoad

SpecActivityLoad == InitActivityLoad /\ [][NextActivityLoad]_vars

---------------------------------------------------------------------------
\* Weekly loads

MaxActivities == 3

\* Days 7 and 14 are Sundays, days 1, 8 and 15 are Mondays.
ActivityPool ==
    {Activity(1, "cardio", None), Activity(7, "cardio", 30),
     Activity(8, "strength", 60), Activity(8, "sport", 45),
     Activity(10, "strength", None), Activity(11, "mobility", 0),
     Activity(14, "sport", 45), Activity(14, "custom", 200),
     Activity(15, "strength", 250), Activity(15, "cardio", 45)}

\* west of UTC, UTC, east of UTC
TzOffsets == {-8, -1, 0, 1, 14}

InitWeekly ==
    /\ activities \in SeqsUpTo(ActivityPool, MaxActivities)
    /\ tzOffset \in TzOffsets
    /\ NoNumbers /\ NoSets /\ NoMetrics /\ NoCalories /\ NoPoints /\ NoClock /\ NoCall

Call_calcWeeklyLoads ==
    /\ op' = "calcWeeklyLoads"
    /\ ret' = calcWeeklyLoads(activities)
    /\ UNCHANGED Inputs

NextWeekly == Call_calcWeeklyLoads

SpecWeekly == InitWeekly /\ [][NextWeekly]_vars

---------------------------------------------------------------------------
\* Body composition

MaxRows == 3

\* (date, weight in hundredths of a kg, body fat in tenths of a percent);
\* day 31 is 30 days after day 1, day 51 is 50 days after it.  Every value
\* is a binary fraction, so the doubles the code computes with are exact.
CompositionRows ==
    {<<1, 8000, 200>>, <<1, None, None>>, <<1, 8000, None>>, <<1, 8200, 180>>,
     <<16, 8000, 200>>, <<16, 8100, 190>>,
     <<31, 8200, 200>>, <<31, 7800, 170>>, <<31, 8000, 170>>, <<31, 8050, 200>>,
     <<31, 7950, 170>>, <<31, 8200, 205>>, <<31, 8000, 200>>, <<31, None, 170>>,
     <<31, 7800, None>>,
     <<31, 8025, 200>>, <<31, 7975, 200>>,
     <<51, 8200, 205>>, <<51, 8000, 195>>}

InitComposition ==
    /\ \E rows \in SeqsUpTo(CompositionRows, MaxRows) :
           metrics = [i \in DOMAIN rows |->
                         BodyMetric(rows[i][1], rows[i][2], None, rows[i][3])]
    /\ NoNumbers /\ NoSets /\ NoActivities /\ NoCalories /\ NoPoints /\ NoClock /\ NoCall

Call_analyzeComposition ==
    /\ op' = "analyzeComposition"
    /\ ret' = analyzeComposition(metrics)
    /\ UNCHANGED Inputs

NextComposition == Call_analyzeComposition

SpecComposition == InitComposition /\ [][NextComposition]_vars

---------------------------------------------------------------------------
\* Calorie estimators.  One estimator's arguments are drawn, the other
\* estimators are called on their default arguments.

MaxCalorieSets == 2

BodyWeights == {0 - Kg(1), 0, Kg(80), 7250}

CardioInputs ==
    {[duration |-> d, distance |-> km, notes |-> n] :
        d \in {-30, 0, 30, 60},
        km \in {None, 0, 25, 50, 100},
        n \in {{}, {"run"}, {"walk", "run"}, {"row"}}}

\* (weight in hundredths of a kg, reps) of StrengthSetInput
CalorieSets ==
    {[weight |-> Kg(100), reps |-> 5], [weight |-> Kg(60), reps |-> 15],
     [weight |-> 0, reps |-> 5], [weight |-> Kg(80), reps |-> 0]}

StrengthInputs ==
    {[sets |-> ss, duration |-> d] :
        ss \in SeqsUpTo(CalorieSets, MaxCalorieSets), d \in {None, -10, 0, 45}}

ActivityDurations == {-30, 0, 30, 45}

InitCalories ==
    /\ weightKg \in BodyWeights
    /\ \/ /\ cardioInput \in CardioInputs
          /\ strengthInput = NoStrengthInput
          /\ activityType = "custom" /\ durationMins = 0
       \/ /\ cardioInput = NoCardioInput
          /\ strengthInput \in StrengthInputs
          /\ activityType = "custom" /\ durationMins = 0
       \/ /\ cardioInput = NoCardioInput
          /\ strengthInput = NoStrengthInput
          /\ activityType \in ActivityTypes \cup {"hike"}
          /\ durationMins \in ActivityDurations
    /\ NoNumbers /\ NoSets /\ NoMetrics /\ NoActivities /\ NoPoints /\ NoClock /\ NoCall

Call_calcCardioCalories ==
    /\ op' = "calcCardioCalories"
    /\ ret' = calcCardioCalories(cardioInput, weightKg)
    /\ UNCHANGED Inputs

Call_calcStrengthCalories ==
    /\ op' = "calcStrengthCalories"
    /\ ret' = calcStrengthCalories(strengthInput, weightKg)
    /\ UNCHANGED Inputs

Call_calcActivityCalories ==
    /\ op' = "calcActivityCalories"
    /\ ret' = calcActivityCalories(activityType, durationMins, weightKg)
    /\ UNCHANGED Inputs

NextCalories ==
    \/ Call_calcCardioCalories
    \/ Call_calcStrengthCalories
    \/ Call_calcActivityCalories

SpecCalories == InitCalories /\ [][NextCalories]_vars

---------------------------------------------------------------------------
\* Weight trend

MaxPoints == 3

\* A quarter of a kg over 17 days is 0.103 kg a week, over 18 days 0.097.
TrendPoints ==
    {WeightPoint(d, w) : d \in {1, 2, 3, 4, 8}, w \in {Kg(80), 7950, Kg(81)}}
    \cup {WeightPoint(d, w) : d \in {18, 19}, w \in {7975, 8025}}

InitTrend ==
    /\ points \in SeqsUpTo(TrendPoints, MaxPoints)
    /\ NoNumbers /\ NoSets /\ NoMetrics /\ NoActivities /\ NoCalories /\ NoClock /\ NoCall

Call_calcWeightTrend ==
    /\ op' = "calcWeightTrend"
    /\ ret' = calcWeightTrend(points)
    /\ UNCHANGED Inputs

NextTrend == Call_calcWeightTrend

SpecTrend == InitTrend /\ [][NextTrend]_vars

---------------------------------------------------------------------------
\* The workout sheet.  The component stays mounted while its page is shown;
\* it starts closed, with no draft or with the draft an earlier visit left.
\* The type stays 'strength' and no button is pressed while a save is in
\* flight.  A call of a service succeeds or throws.  SpecDraft is the sheet
\* under the actions that log, edit and restore sets; SpecSave is the sheet
\* under the actions that log and save them.

MaxLogged == 1
MaxSaved  == 2

\* What is typed into the reps and weight fields; a weight of 0 is the
\* field left empty (parseFloat('') || 0).
TypedReps    == {5}
TypedWeights == {0, Kg(60)}

InitSheet ==
    /\ sheet = ClosedSheet
    /\ localStorage \in {NoDraft,
                          WorkoutDraft("strength", Today, <<LoggedSet(1, 5, Kg(60))>>)}
    /\ db = EmptyDb
    /\ lastWeightDate = NoDate /\ now = 0
    /\ NoNumbers /\ NoSets /\ NoMetrics /\ NoActivities /\ NoCalories
    /\ NoPoints /\ NoCall

Idle == sheet.open /\ ~sheet.saving

\* open becomes true: the effect that checks for a saved draft runs
Open ==
    /\ ~sheet.open
    /\ \E fresh \in BOOLEAN :
           IF localStorage = NoDraft
           THEN /\ sheet' = [sheet EXCEPT !.open = TRUE]
                /\ UNCHANGED localStorage
           ELSE IF fresh /\ Len(localStorage.loggedSets) > 0
                THEN /\ sheet' = [sheet EXCEPT !.open = TRUE,
                                               !.draftToRestore = localStorage]
                     /\ UNCHANGED localStorage
                ELSE /\ sheet' = [sheet EXCEPT !.open = TRUE]
                     /\ localStorage' = NoDraft
    /\ UNCHANGED <<EngineInputs, db, op, ret>>

\* onClose: the page hides the sheet
Close ==
    /\ Idle
    /\ sheet' = [sheet EXCEPT !.open = FALSE]
    /\ UNCHANGED <<EngineInputs, localStorage, db, op, ret>>

restoreDraft ==
    /\ Idle
    /\ sheet.draftToRestore # NoDraft
    /\ sheet' = [sheet EXCEPT !.type = sheet.draftToRestore.type,
                              !.date = sheet.draftToRestore.date,
                              !.loggedSets = sheet.draftToRestore.loggedSets,
                              !.draftToRestore = NoDraft]
    /\ UNCHANGED <<EngineInputs, localStorage, db, op, ret>>

discardDraft ==
    /\ Idle
    /\ sheet.draftToRestore # NoDraft
    /\ localStorage' = NoDraft
    /\ sheet' = [sheet EXCEPT !.draftToRestore = NoDraft]
    /\ UNCHANGED <<EngineInputs, db, op, ret>>

logSet ==
    /\ Idle
    /\ Len(sheet.loggedSets) < MaxLogged
    /\ \E r \in TypedReps, w \in TypedWeights :
           LET next == Append(sheet.loggedSets, LoggedSet(FreshUid, r, w))
           IN /\ sheet' = [sheet EXCEPT !.loggedSets = next]
              /\ localStorage' = saveDraft(next, sheet.type, sheet.date)
    /\ UNCHANGED <<EngineInputs, db, op, ret>>

removeSet ==
    /\ Idle
    /\ \E s \in Range(sheet.loggedSets) :
           LET next == SelectSeq(sheet.loggedSets, LAMBDA x : x.uid # s.uid)
           IN /\ sheet' = [sheet EXCEPT !.loggedSets = next]
              /\ localStorage' = saveDraft(next, sheet.type, sheet.date)
    /\ UNCHANGED <<EngineInputs, db, op, ret>>

startEdit ==
    /\ Idle
    /\ \E s \in Range(sheet.loggedSets) :
           sheet' = [sheet EXCEPT !.editUid = s.uid]
    /\ UNCHANGED <<EngineInputs, localStorage, db, op, ret>>

\* editReps and editWeight as typed: 0 stands for the empty field, so
\* parseInt(editReps) || s.reps keeps the reps and parseFloat(editWeight)
\* || 0 is 0.
saveEdit ==
    /\ Idle
    /\ sheet.editUid # None
    /\ \E r \in {0, 8}, w \in TypedWeights :
           LET next == [i \in DOMAIN sheet.loggedSets |->
                           IF sheet.loggedSets[i].uid = sheet.editUid
                           THEN [sheet.loggedSets[i] EXCEPT
                                    !.reps = IF r = 0 THEN @ ELSE r,
                                    !.weight = w]
                           ELSE sheet.loggedSets[i]]
           IN /\ sheet' = [sheet EXCEPT !.loggedSets = next, !.editUid = None]
              /\ localStorage' = saveDraft(next, sheet.type, sheet.date)
    /\ UNCHANGED <<EngineInputs, db, op, ret>>

\* handleFinish up to its first await
handleFinish ==
    /\ Idle
    /\ ~(sheet.type = "strength" /\ Len(sheet.loggedSets) = 0)
    /\ Len(db.activities) < MaxSaved
    /\ sheet' = [sheet EXCEPT !.saving = TRUE, !.awaiting = "create"]
    /\ UNCHANGED <<EngineInputs, localStorage, db, op, ret>>

\* activitiesService.create resolves: the activity row is stored; the type
\* is 'strength' and sets are logged, so createMany is awaited next
create_resolves ==
    /\ sheet.awaiting = "create"
    /\ LET id == Len(db.activities) + 1
       IN /\ db' = [db EXCEPT !.activities =
                         Append(@, [id |-> id, type |-> sheet.type, date |-> sheet.date])]
          /\ sheet' = [sheet EXCEPT !.awaiting = "createMany", !.activity = id]
    /\ UNCHANGED <<EngineInputs, localStorage, op, ret>>

\* strengthSetsService.createMany resolves: the sets are stored, then the
\* form is reset, the draft removed and the sheet closed
createMany_resolves ==
    /\ sheet.awaiting = "createMany"
    /\ db' = [db EXCEPT !.strength_sets = @ \o
                 [i \in DOMAIN sheet.loggedSets |->
                     [activity_id |-> sheet.activity,
                      exercise_id |-> sheet.loggedSets[i].exercise_id,
                      set_number  |-> i,
                      reps        |-> sheet.loggedSets[i].reps,
                      weight      |-> IF sheet.loggedSets[i].weight = 0 THEN None
                                      ELSE sheet.loggedSets[i].weight]]]
    /\ sheet' = [resetForm(sheet) EXCEPT !.open = FALSE, !.saving = FALSE,
                                         !.awaiting = "none", !.activity = None]
    /\ localStorage' = NoDraft
    /\ UNCHANGED <<EngineInputs, op, ret>>

\* the awaited call throws: catch shows the toast, finally clears saving
call_rejects ==
    /\ sheet.awaiting \in {"create", "createMany"}
    /\ sheet' = [sheet EXCEPT !.saving = FALSE, !.awaiting = "none", !.activity = None]
    /\ UNCHANGED <<EngineInputs, localStorage, db, op, ret>>

NextDraft ==
    \/ Open \/ Close \/ restoreDraft \/ discardDraft
    \/ logSet \/ removeSet \/ startEdit \/ saveEdit

SpecDraft == InitSheet /\ [][NextDraft]_vars

NextSave ==
    \/ Open \/ Close \/ logSet
    \/ handleFinish \/ create_resolves \/ createMany_resolves \/ call_rejects

SpecSave == InitSheet /\ [][NextSave]_vars

---------------------------------------------------------------------------
\* Server-side analytics.  A stored set belongs to an activity, so it is
\* dated.

StoredSets == {s \in SetPool : s.activity_date # NoDate}

InitSql ==
    /\ sets \in SeqsUpTo(StoredSets, MaxSets)
    /\ exerciseId = "e1"
    /\ NoNumbers /\ NoMetrics /\ NoActivities /\ NoCalories /\ NoPoints
    /\ NoClock /\ NoCall

Call_get_exercise_summaries ==
    /\ op' = "get_exercise_summaries"
    /\ ret' \in get_exercise_summaries(sets)
    /\ UNCHANGED Inputs

Call_get_personal_records ==
    /\ op' = "get_personal_records"
    /\ ret' \in get_personal_records(sets)
    /\ UNCHANGED Inputs

NextSql == Call_get_exercise_summaries \/ Call_get_personal_records

SpecSql == InitSql /\ [][NextSql]_vars

---------------------------------------------------------------------------
\* Rolling average: the pages hand get4WeekAvgLoad the weekly loads of the
\* activities.  One activity for each Wednesday of six weeks, of a
\* different load each.

MaxWeekActivities == 5

WednesdayPool ==
    {Activity(3, "strength", 24), Activity(10, "strength", 31),
     Activity(17, "strength", 40), Activity(24, "strength", 50),
     Activity(31, "strength", 60), Activity(38, "strength", 71)}

InitAvgLoad ==
    /\ activities \in SeqsUpTo(WednesdayPool, MaxWeekActivities)
    /\ tzOffset = 0
    /\ NoNumbers /\ NoSets /\ NoMetrics /\ NoCalories /\ NoPoints
    /\ NoClock /\ NoCall

Call_get4WeekAvgLoad ==
    /\ op' = "get4WeekAvgLoad"
    /\ ret' = get4WeekAvgLoad(calcWeeklyLoads(activities))
    /\ UNCHANGED Inputs

SpecAvgLoad == InitAvgLoad /\ [][Call_get4WeekAvgLoad]_vars

---------------------------------------------------------------------------
\* Staleness: the weight was never logged, or logged on day 1 or day 3; the
\* clock is any hour from the start of day 1 on (a log dated day 3 is in
\* the future for the first two days).

MaxAgeDays == 16

InitStale ==
    /\ lastWeightDate \in {NoDate, 1, 3}
    /\ now \in 24..(24 * (1 + MaxAgeDays))
    /\ sheet = ClosedSheet /\ localStorage = NoDraft /\ db = EmptyDb
    /\ NoNumbers /\ NoSets /\ NoMetrics /\ NoActivities /\ NoCalories
    /\ NoPoints /\ NoCall

Call_isWeightStale ==
    /\ op' = "isWeightStale"
    /\ ret' = isWeightStale(lastWeightDate)
    /\ UNCHANGED Inputs

Call_dataFreshnessWarning ==
    /\ op' = "dataFreshnessWarning"
    /\ ret' = dataFreshnessWarning(lastWeightDate)
    /\ UNCHANGED Inputs

\* The Body screen computes the three of them in one render.
Render_BodyScreen ==
    /\ op' = "BodyScreen"
    /\ ret' = [stale     |-> isWeightStale(lastWeightDate),
               warning   |-> dataFreshnessWarning(lastWeightDate),
               daysSince |-> daysSinceMetric(lastWeightDate)]
    /\ UNCHANGED Inputs

NextStale == Call_isWeightStale \/ Call_dataFreshnessWarning \/ Render_BodyScreen

SpecStale == InitStale /\ [][NextStale]_vars

---------------------------------------------------------------------------
\* The engine as a whole: any of its functions, on inputs drawn for it

Init == \/ InitLoad \/ InitEpley \/ InitSets \/ InitBody \/ InitPlateau
        \/ InitActivityLoad \/ InitWeekly \/ InitComposition \/ InitCalories
        \/ InitTrend \/ InitSql \/ InitAvgLoad \/ InitStale \/ InitSheet

Next == \/ NextLoad \/ NextEpley \/ NextSets \/ NextBody \/ NextPlateau
        \/ NextActivityLoad \/ NextWeekly \/ NextComposition \/ NextCalories
        \/ NextTrend \/ NextSql \/ Call_get4WeekAvgLoad \/ NextStale
        \/ NextDraft \/ NextSave

Spec == Init /\ [][Next]_vars

---------------------------------------------------------------------------
\* C1: classifyWeekLoad is total and applies undertraining (sessions < 2 or
\* load < 60) before overtraining (load > 300 or sessions > 7) before
\* optimal; (301, 1) and (59, 5) are undertraining, (150, 3) is optimal and
\* (301, 8) is overtraining.
C1_ClassifyPrecedence ==
    op = "classifyWeekLoad" =>
        /\ ret \in {"undertraining", "overtraining", "optimal"}
        /\ (sessions < 2 \/ totalLoad < 60) => ret = "undertraining"
        /\ (~(sessions < 2 \/ totalLoad < 60) /\ (totalLoad > 300 \/ sessions > 7))
               => ret = "overtraining"
        /\ (sessions \in 2..7 /\ totalLoad \in 60..300) => ret = "optimal"
        /\ (totalLoad = 301 /\ sessions = 1) => ret = "undertraining"
        /\ (totalLoad = 59 /\ sessions = 5) => ret = "undertraining"
        /\ (totalLoad = 150 /\ sessions = 3) => ret = "optimal"
        /\ (totalLoad = 301 /\ sessions = 8) => ret = "overtraining"

\* A week of one session with load 301 has been classified.
C1_Witness ==
    op = "classifyWeekLoad" /\ totalLoad = 301 /\ sessions = 1 /\ ret = "undertraining"

\* C2 (as claimed): for reps >= 1, epley1RM(w, 1) = w and epley1RM(w, reps)
\* <= epley1RM(w, reps + 1): the estimate never decreases as reps grow.
C2_EpleyMonotone ==
    (op = "epley1RM" /\ reps >= 1) =>
        /\ (reps = 1 => ret = weight * RepsDivisor)
        /\ ret <= epley1RM(weight, reps + 1)

\* C3 (as claimed): both implementations return 0 when reps is 0 and return
\* 0 when weight is 0.
C3_EpleyZero ==
    op \in {"epley1RM", "calorie_epley1RM"} =>
        /\ (reps = 0 => ret = 0)
        /\ (weight = 0 => ret = 0)

---------------------------------------------------------------------------
\* What the claims speak of, stated on the inputs

\* weight x (1 + reps/30), in 1/3000 kg
RawEstimate(w, r) == w * (30 + r)

\* The estimated 1RM as lib/utils gives it: the weight itself for one rep,
\* otherwise weight x (1 + reps/30) rounded to the nearest whole kg.
Estimate(w, r) ==
    IF r = 1 THEN 30 * w ELSE 3000 * ((2 * w * (30 + r) + 3000) \div 6000)

\* A set that has both weight and reps: each is recorded and not zero (the
\* application stores a set logged without weight with the weight absent).
Valid(s) == s.weight # None /\ s.weight # 0 /\ s.reps # None /\ s.reps # 0

Exercises == {"e1", "e2"}
SetsOf(e)      == {k \in DOMAIN sets : sets[k].exercise_id = e}
ValidSetsOf(e) == {k \in SetsOf(e) : Valid(sets[k])}
RecordsOf(e)   == {i \in DOMAIN ret : ret[i].exercise_id = e}

RECURSIVE SumOver(_, _)
SumOver(S, f) ==
    IF S = {} THEN 0
    ELSE LET k == CHOOSE x \in S : TRUE IN f[k] + SumOver(S \ {k}, f)

IsMax(v, S) == v \in S /\ \A x \in S : x <= v
IsMin(v, S) == v \in S /\ \A x \in S : v <= x

\* The sets (5 x 100), (5 x 105), (3 x 110) of one exercise, in any order.
IsBenchExample ==
    /\ Len(sets) = 3
    /\ \A k \in DOMAIN sets : sets[k].exercise_id = "e1"
    /\ {<<sets[k].weight, sets[k].reps>> : k \in DOMAIN sets}
           = {<<10000, 5>>, <<10500, 5>>, <<11000, 3>>}

\* C4 (as claimed): the estimated_1rm record computeStrengthPRs reports for
\* a set equals lib/utils' epley1RM of that set's weight and reps; for a
\* single-rep set it is the weight itself.
C4_OneEstimate ==
    op = "computeStrengthPRs" =>
        \A i \in DOMAIN ret :
            ret[i].type = "estimated_1rm" =>
                /\ ret[i].value = epley1RM(ret[i].weight, ret[i].reps)
                /\ (ret[i].reps = 1 => ret[i].value = 30 * ret[i].weight)

\* C5 (as claimed): the record returned for an exercise is a set whose
\* weight x (1 + reps/30) is the largest among the exercise's sets, in every
\* input order; for (5 x 100), (5 x 105), (3 x 110) it is the 5 x 105 set
\* with estimated_1rm 122.5.
C5_ByRawValue ==
    op = "findPersonalRecords" =>
        /\ \A i \in DOMAIN ret : \A k \in ValidSetsOf(ret[i].exercise_id) :
               RawEstimate(sets[k].weight, sets[k].reps)
                   <= RawEstimate(ret[i].weight, ret[i].reps)
        /\ IsBenchExample =>
               /\ Len(ret) = 1
               /\ ret[1].weight = 10500 /\ ret[1].reps = 5
               /\ 2 * ret[1].estimated_1rm = 245 * 3000

\* C5 (amended): the record returned for an exercise is a set whose
\* epley1RM (the weight for one rep, otherwise weight x (1 + reps/30)
\* rounded to a whole kg) is the largest among the exercise's sets, in every
\* input order; for (5 x 100), (5 x 105), (3 x 110) it is the 5 x 105 set
\* with estimated_1rm 123.
C5_ByRoundedValue ==
    op = "findPersonalRecords" =>
        /\ \A i \in DOMAIN ret : \A k \in ValidSetsOf(ret[i].exercise_id) :
               Estimate(sets[k].weight, sets[k].reps)
                   <= Estimate(ret[i].weight, ret[i].reps)
        /\ IsBenchExample =>
               /\ Len(ret) = 1
               /\ ret[1].weight = 10500 /\ ret[1].reps = 5
               /\ ret[1].estimated_1rm = 123 * 3000

\* The example with its winner in the middle of the input.
C5_Witness ==
    /\ op = "findPersonalRecords"
    /\ IsBenchExample
    /\ sets[1].weight = 11000 /\ sets[2].weight = 10500
    /\ ret[1].weight = 10500

\* C6: findPersonalRecords returns exactly one record for each exercise with
\* a set that has both weight and reps and none for any other; the record
\* is the first set in input order among those of the highest estimated 1RM.
C6_BestSetFirstWins ==
    op = "findPersonalRecords" =>
        /\ \A e \in Exercises :
               Cardinality(RecordsOf(e)) = IF ValidSetsOf(e) = {} THEN 0 ELSE 1
        /\ \A i \in DOMAIN ret :
               /\ ret[i].exercise_id \in Exercises
               /\ \E k \in ValidSetsOf(ret[i].exercise_id) :
                      /\ ret[i].weight = sets[k].weight
                      /\ ret[i].reps = sets[k].reps
                      /\ ret[i].achieved_on = sets[k].activity_date
                      /\ ret[i].estimated_1rm = Estimate(sets[k].weight, sets[k].reps)
                      /\ \A j \in ValidSetsOf(ret[i].exercise_id) :
                             /\ Estimate(sets[j].weight, sets[j].reps)
                                    <= Estimate(sets[k].weight, sets[k].reps)
                             /\ Estimate(sets[j].weight, sets[j].reps)
                                    = Estimate(sets[k].weight, sets[k].reps) => k <= j

\* Two different sets of one exercise tie at the highest estimate and the
\* earlier one is the record; another exercise has its own record.
C6_Witness ==
    /\ op = "findPersonalRecords"
    /\ Len(sets) = 3 /\ Len(ret) = 2
    /\ \A k \in DOMAIN sets : Valid(sets[k])
    /\ sets[1].exercise_id = "e2" /\ sets[2].exercise_id = "e1" /\ sets[3].exercise_id = "e1"
    /\ Estimate(sets[2].weight, sets[2].reps) = Estimate(sets[3].weight, sets[3].reps)
    /\ sets[2].weight # sets[3].weight
    /\ \E i \in DOMAIN ret : ret[i].exercise_id = "e1" /\ ret[i].weight = sets[2].weight

\* C7: every summary of calcExerciseSummaries has total_volume = the sum of
\* weight x reps over the exercise's sets (0 for a set missing either),
\* max_weight = the largest weight, estimated_1rm = the largest epley1RM
\* over the sets having both, set_count = the number of sets; N sets of
\* (100 kg, 5 reps) give N x 500, 100 and 117.
C7_SummaryFields ==
    op = "calcExerciseSummaries" =>
        /\ \A e \in Exercises : Cardinality(RecordsOf(e)) = IF SetsOf(e) = {} THEN 0 ELSE 1
        /\ \A i \in DOMAIN ret :
               LET e == ret[i].exercise_id
                   product == [k \in SetsOf(e) |->
                                  (IF sets[k].weight = None THEN 0 ELSE sets[k].weight)
                                  * (IF sets[k].reps = None THEN 0 ELSE sets[k].reps)]
                   weights == {sets[k].weight : k \in {j \in SetsOf(e) : sets[j].weight # None}}
                   oneRMs  == {Estimate(sets[k].weight, sets[k].reps) : k \in ValidSetsOf(e)}
               IN /\ ret[i].total_volume = SumOver(SetsOf(e), product)
                  /\ weights # {} => IsMax(ret[i].max_weight, weights)
                  /\ oneRMs # {} => IsMax(ret[i].estimated_1rm, oneRMs)
                  /\ ret[i].set_count = Cardinality(SetsOf(e))
        /\ (Len(sets) >= 1 /\ \A k \in DOMAIN sets :
                /\ sets[k].exercise_id = "e1"
                /\ sets[k].weight = 10000 /\ sets[k].reps = 5)
               => /\ Len(ret) = 1
                  /\ ret[1].total_volume = Len(sets) * 500 * 100
                  /\ ret[1].max_weight = 100 * 100
                  /\ ret[1].estimated_1rm = 117 * 3000

\* Three sets of (100 kg, 5 reps) have been summarised.
C7_Witness ==
    /\ op = "calcExerciseSummaries"
    /\ Len(sets) = 3
    /\ \A k \in DOMAIN sets : sets[k].weight = 10000 /\ sets[k].reps = 5
                              /\ sets[k].exercise_id = "e1"
    /\ ret[1].total_volume = 1500 * 100 /\ ret[1].estimated_1rm = 117 * 3000

\* The records of one type for one exercise.
TypedRecordsOf(e, type) == {i \in RecordsOf(e) : ret[i].type = type}

\* The estimate computeStrengthPRs reports for a set: weight x (1 + reps/30)
\* rounded to the nearest whole kg.
ReportedEstimate(w, r) == 3000 * ((2 * w * (30 + r) + 3000) \div 6000)

PositiveRows(field) ==
    {k \in DOMAIN metrics : metrics[k][field] # None /\ metrics[k][field] > 0}
BodyRecords(type) == {i \in DOMAIN ret : ret[i].type = type}

BodyRecordOK(type, field) ==
    /\ Cardinality(BodyRecords(type)) = IF PositiveRows(field) = {} THEN 0 ELSE 1
    /\ \A i \in BodyRecords(type) :
           /\ IsMin(ret[i].value, {metrics[k][field] : k \in PositiveRows(field)})
           /\ \E k \in PositiveRows(field) :
                  metrics[k][field] = ret[i].value /\ metrics[k].date = ret[i].date

\* C9: computeBodyPRs returns at most one record per field type; a field has
\* a record iff some row has a positive value for it; the value is the
\* lowest positive value and the date is that of a row holding it.
C9_LowestPerField ==
    op = "computeBodyPRs" =>
        /\ \A i \in DOMAIN ret :
               ret[i].type \in {"lowest_weight", "smallest_waist", "best_body_fat"}
        /\ BodyRecordOK("lowest_weight", "weight")
        /\ BodyRecordOK("smallest_waist", "waist")
        /\ BodyRecordOK("best_body_fat", "body_fat")

\* The lowest weight is held by the last of three rows; a field with no
\* positive value has no record.
C9_Witness ==
    /\ op = "computeBodyPRs"
    /\ Len(metrics) = 3
    /\ metrics[1].weight = 80 /\ metrics[2].weight = None /\ metrics[3].weight = 70
    /\ \A k \in DOMAIN metrics : metrics[k].waist = 0
    /\ ret[1].type = "lowest_weight" /\ ret[1].value = 70 /\ ret[1].date = metrics[3].date
    /\ BodyRecords("smallest_waist") = {}

\* The sets of the exercise asked about that carry a date, those of them
\* that have both weight and reps, and the session dates of the latter.
DatedSets      == {k \in DOMAIN sets : sets[k].exercise_id = exerciseId
                                        /\ sets[k].activity_date # NoDate}
QualifyingSets == {k \in DatedSets : Valid(sets[k])}
SessionDates   == {sets[k].activity_date : k \in QualifyingSets}

\* C10 (as claimed): detectPlateau returns false whenever the exercise has
\* fewer than 6 dated sets that have both weight and reps, or fewer than 3
\* distinct session dates with such a set.
C10_NeverFlaggedQualifying ==
    (op = "detectPlateau"
        /\ (Cardinality(QualifyingSets) < 6 \/ Cardinality(SessionDates) < 3))
    => ret = FALSE

\* C10 (amended): detectPlateau returns false whenever the exercise has
\* fewer than 6 dated sets, with or without weight and reps, or fewer than
\* 3 distinct session dates with a dated set that has both weight and reps.
C10_NeverFlaggedDated ==
    (op = "detectPlateau"
        /\ (Cardinality(DatedSets) < 6 \/ Cardinality(SessionDates) < 3))
    => ret = FALSE

\* Six sets were passed, five of them dated sets of the exercise with the
\* same estimate on three session dates: not flagged.
C10_Witness ==
    /\ op = "detectPlateau"
    /\ Len(sets) = 6
    /\ Cardinality(DatedSets) = 5
    /\ Cardinality(QualifyingSets) = 5
    /\ Cardinality(SessionDates) = 3
    /\ \A k \in QualifyingSets : sets[k].weight = 10000
    /\ ret = FALSE

\* The 3 chronologically latest session dates, and the best estimated 1RM
\* among the sets of a session date.
LatestSessionDates ==
    {d \in SessionDates : Cardinality({e \in SessionDates : e > d}) < 3}
BestOn(d) ==
    CHOOSE v \in {Estimate(sets[k].weight, sets[k].reps) :
                     k \in {q \in QualifyingSets : sets[q].activity_date = d}} :
        \A k \in QualifyingSets :
            sets[k].activity_date = d => Estimate(sets[k].weight, sets[k].reps) <= v

\* C11: with at least 6 dated sets and at least 3 distinct session dates,
\* detectPlateau returns true exactly when (max - min) / max < 0.03 over the
\* best estimated 1RM of each of the 3 latest session dates, whatever the
\* order of the input.
C11_LatestThreeWithin3Percent ==
    (op = "detectPlateau"
        /\ Cardinality(DatedSets) >= 6 /\ Cardinality(SessionDates) >= 3)
    => LET best == {BestOn(d) : d \in LatestSessionDates}
           max  == CHOOSE v \in best : IsMax(v, best)
           min  == CHOOSE v \in best : IsMin(v, best)
       IN ret = ((max - min) * 100 < 3 * max)

\* Six dated sets on four session dates were passed with the latest date
\* first; the three earlier sessions are level but the latest is not.
C11_Witness ==
    /\ op = "detectPlateau"
    /\ Cardinality(DatedSets) = 6
    /\ SessionDates = {1, 2, 3, 4}
    /\ sets[1].activity_date = 4
    /\ sets[6].activity_date = 1
    /\ ret = FALSE

\* The multiplier of an activity type, in tenths, and the duration counted
\* for an activity: 30 minutes when none is recorded.
MultiplierOf(type) ==
    CASE type = "strength" -> 10 [] type = "cardio" -> 8 [] type = "sport" -> 7
      [] type = "mobility" -> 3 [] type = "custom" -> 6
DurationOf(a) == IF a.duration = None THEN 30 ELSE a.duration

\* x / 10 rounded to the nearest integer, halves up
RoundHalfUp(x) == (2 * x + 10) \div 20

CountedIn(ws)  == {k \in DOMAIN activities : WeekStartOf(activities[k]) = ws}
LoadOf         == [k \in DOMAIN activities |->
                      RoundedProduct(DurationOf(activities[k]),
                                     MultiplierOf(activities[k].type))]
DatedWithin(ws) == {k \in DOMAIN activities :
                       ws <= activities[k].date /\ activities[k].date <= ws + 6}
IsMonday(d)    == d % 7 = 1

\* C13: every WeeklyLoad returned has strength_load = the sum of the loads
\* of the week's strength activities, cardio_load = the sum of the loads of
\* all its other activities, total_load = strength_load + cardio_load,
\* session_count = the number of the week's activities and status =
\* classifyWeekLoad(total_load, session_count); the week's activities are
\* those the function counted in it; there is one WeeklyLoad per week.
C13_WeeklySums ==
    op = "calcWeeklyLoads" =>
        /\ \A i \in DOMAIN ret :
               LET week     == CountedIn(ret[i].week_start)
                   strength == {k \in week : activities[k].type = "strength"}
               IN /\ week # {}
                  /\ ret[i].strength_load = SumOver(strength, LoadOf)
                  /\ ret[i].cardio_load = SumOver(week \ strength, LoadOf)
                  /\ ret[i].total_load = ret[i].strength_load + ret[i].cardio_load
                  /\ ret[i].session_count = Cardinality(week)
                  /\ ret[i].status
                         = classifyWeekLoad(ret[i].total_load, ret[i].session_count)
        /\ \A k \in DOMAIN activities :
               \E i \in DOMAIN ret : ret[i].week_start = WeekStartOf(activities[k])
        /\ \A i, j \in DOMAIN ret : i < j => ret[i].week_start < ret[j].week_start

\* In UTC, a week of three sessions (two of strength, one of sport) has
\* been summed: strength 60 + 30, the rest 31, optimal.
C13_Witness ==
    /\ op = "calcWeeklyLoads"
    /\ tzOffset = 0
    /\ Len(activities) = 3
    /\ Len(ret) = 1
    /\ ret[1].week_start = 8
    /\ ret[1].strength_load = 90 /\ ret[1].cardio_load = 31
    /\ ret[1].total_load = 121 /\ ret[1].session_count = 3
    /\ ret[1].status = "optimal"

\* C14 (as claimed): for every date D and every time-zone offset, the
\* bucket that counts an activity dated D starts on a Monday with
\* week_start <= D <= week_start + 6: every returned week starts on a Monday
\* and counts exactly the activities dated in its seven days, and every
\* activity's week is returned.
C14_MondayWeekOfDate ==
    op = "calcWeeklyLoads" =>
        /\ \A i \in DOMAIN ret :
               /\ IsMonday(ret[i].week_start)
               /\ ret[i].session_count = Cardinality(DatedWithin(ret[i].week_start))
        /\ \A k \in DOMAIN activities :
               \E i \in DOMAIN ret : k \in DatedWithin(ret[i].week_start)

\* The anchors of a composition analysis: the earliest and the latest row
\* (of rows sharing a date, the first and the last given), the days between
\* them, and the changes of weight (hundredths of a kg) and of body fat
\* (tenths of a percent) between them, a missing value counting as 0.
EarliestRow ==
    metrics[CHOOSE k \in DOMAIN metrics :
                \A j \in DOMAIN metrics :
                    \/ metrics[k].date < metrics[j].date
                    \/ (metrics[k].date = metrics[j].date /\ k <= j)]
LatestRow ==
    metrics[CHOOSE k \in DOMAIN metrics :
                \A j \in DOMAIN metrics :
                    \/ metrics[k].date > metrics[j].date
                    \/ (metrics[k].date = metrics[j].date /\ k >= j)]
Recorded(x)  == IF x = None THEN 0 ELSE x
DaysBetween  == LatestRow.date - EarliestRow.date
WeightDelta  == Recorded(LatestRow.weight) - Recorded(EarliestRow.weight)
FatDelta     == Recorded(LatestRow.body_fat) - Recorded(EarliestRow.body_fat)

\* The rates per 30 days against a limit of l thousandths (of a kg or of a
\* percent per 30 days), both sides multiplied by the number of days, 1 at
\* least.
RateDays        == IF DaysBetween < 1 THEN 1 ELSE DaysBetween
WeightRateOver(l)  == WeightDelta * 10 * 30 > l * RateDays
WeightRateUnder(l) == WeightDelta * 10 * 30 < l * RateDays
FatRateUnder(l)    == FatDelta * 100 * 30 < l * RateDays

\* C15: analyzeComposition returns 'insufficient_data' with both changes 0
\* whenever it is given fewer than 2 rows, and never returns
\* 'insufficient_data' when given 2 or more.
C15_InsufficientBelowTwoRows ==
    op = "analyzeComposition" =>
        /\ Len(metrics) < 2 =>
               /\ ret.trend = "insufficient_data"
               /\ ret.weight_change_kg = 0
               /\ ret.body_fat_change_pct = 0
        /\ Len(metrics) >= 2 => ret.trend # "insufficient_data"

\* One row with a weight and a body-fat value was analysed.
C15_Witness ==
    /\ op = "analyzeComposition"
    /\ Len(metrics) = 1
    /\ metrics[1].weight = 8000 /\ metrics[1].body_fat = 200
    /\ ret.trend = "insufficient_data"
    /\ ret.weight_change_kg = 0 /\ ret.body_fat_change_pct = 0

C17_RawDeltasAndPeriod ==
    (op = "analyzeComposition" /\ Len(metrics) >= 2) =>
        /\ ret.weight_change_kg = RoundHalfUp(WeightDelta)
        /\ ret.body_fat_change_pct = FatDelta
        /\ ret.period_days = (IF DaysBetween = 0 THEN 1 ELSE DaysBetween)
        /\ ret.period_days >= 1
        /\ (/\ EarliestRow.weight = 8000 /\ LatestRow.weight = 7800
            /\ EarliestRow.body_fat = 200 /\ LatestRow.body_fat = None)
           => (ret.weight_change_kg = -20 /\ ret.body_fat_change_pct = -200)

\* 81 kg and 19% on day 16, 80.25 kg and 20% on day 31, the later row given
\* first: the changes reported are -0.7 kg (for -0.75) and +1.0% over 15
\* days, not the monthly rates.
C17_Witness ==
    /\ op = "analyzeComposition"
    /\ Len(metrics) = 2
    /\ metrics[1].date = 31 /\ metrics[1].weight = 8025 /\ metrics[1].body_fat = 200
    /\ metrics[2].date = 16 /\ metrics[2].weight = 8100 /\ metrics[2].body_fat = 190
    /\ ret.weight_change_kg = -7 /\ ret.body_fat_change_pct = 10
    /\ ret.period_days = 15

\* The duration an estimator was called with, in minutes (None when
\* calcStrengthCalories was given none), and the methods a result can name.
DurationGiven ==
    CASE op = "calcCardioCalories"   -> cardioInput.duration
      [] op = "calcStrengthCalories" -> strengthInput.duration
      [] op = "calcActivityCalories" -> durationMins
CalorieMethods ==
    {"cardio_speed_met", "cardio_type_fallback", "strength_intensity",
     "strength_duration"}
IsEstimate ==
    op \in {"calcCardioCalories", "calcStrengthCalories", "calcActivityCalories"}

\* C18 (as claimed): every calorie estimator returns calories = 0 whenever
\* the duration is <= 0 or the body weight is <= 0, with a method and a MET
\* in the result, and no estimator ever returns negative calories.
C18_ZeroWhenDegenerate ==
    IsEstimate =>
        /\ ((DurationGiven # None /\ DurationGiven <= 0) \/ weightKg <= 0)
               => ret.calories = 0
        /\ ret.method \in CalorieMethods
        /\ ret.met >= 0
        /\ ret.calories >= 0

\* C19 (as claimed, for a positive body weight): with no explicit duration
\* calcStrengthCalories uses totalSets x (45 + 90) / 60 minutes with
\* totalSets = max(number of input sets, 1), so duration_hrs = totalSets x
\* 135 / 3600 (135 seconds for one set); with a duration given,
\* duration_hrs = duration / 60.
C19_StrengthDuration ==
    (op = "calcStrengthCalories" /\ weightKg > 0) =>
        LET n == IF Len(strengthInput.sets) > 1 THEN Len(strengthInput.sets) ELSE 1
        IN IF strengthInput.duration = None
           THEN ret.duration_hrs = n * 135
           ELSE ret.duration_hrs = strengthInput.duration * 60

\* The days between the earliest and the latest of the points given.
PointDates == {points[k].date : k \in DOMAIN points}
SpanOfPoints ==
    (CHOOSE d \in PointDates : IsMax(d, PointDates))
        - (CHOOSE d \in PointDates : IsMin(d, PointDates))

\* C20: calcWeightTrend returns null exactly when it is given fewer than 2
\* points or the earliest and the latest point are under 3 days apart (2
\* days apart: null; 3 days apart: a trend), whatever the order of the
\* points.
C20_NullBelowThreeDays ==
    op = "calcWeightTrend" =>
        /\ (ret = NullTrend) <=> (Len(points) < 2 \/ SpanOfPoints < 3)
        /\ (Len(points) >= 2 /\ SpanOfPoints = 2) => ret = NullTrend
        /\ (Len(points) >= 2 /\ SpanOfPoints = 3) => ret # NullTrend

\* Three points were given latest first, the earliest and the latest
\* exactly 3 days apart: a trend was returned.
C20_Witness ==
    /\ op = "calcWeightTrend"
    /\ Len(points) = 3
    /\ points[1].date = 4 /\ points[2].date = 2 /\ points[3].date = 1
    /\ ret # NullTrend
    /\ ret.direction = "losing"

\* The point calcWeightTrend takes as first (the first given of the
\* earliest date) and as last (the last given of the latest date), and the
\* change of weight and the days between them.
FirstPoint == points[CHOOSE i \in DOMAIN points :
                        \A j \in DOMAIN points :
                            \/ points[i].date < points[j].date
                            \/ (points[i].date = points[j].date /\ i <= j)]
LastPoint  == points[CHOOSE i \in DOMAIN points :
                        \A j \in DOMAIN points :
                            \/ points[i].date > points[j].date
                            \/ (points[i].date = points[j].date /\ i >= j)]
TrendDelta == LastPoint.weight - FirstPoint.weight
TrendSpan  == LastPoint.date - FirstPoint.date
Abs(x)     == IF x < 0 THEN 0 - x ELSE x

Age == now - lastWeightDate * 24

\* C22: isWeightStale is true exactly when no weight was ever logged or the
\* latest weight log is more than 14 days old at the clock;
\* dataFreshnessWarning returns the 'may be inaccurate' text for an age over
\* 14 days, the 'consider logging an update' text for an age over 7 and at
\* most 14 days, and null for an age of at most 7 days.
C22_StaleAndWarningByAge ==
    /\ op = "isWeightStale" =>
           (ret <=> (lastWeightDate = NoDate \/ Age > 14 * 24))
    /\ (op = "dataFreshnessWarning" /\ lastWeightDate # NoDate) =>
           /\ Age > 14 * 24 => (ret # NullWarning /\ ret.text = "may be inaccurate")
           /\ (Age > 7 * 24 /\ Age <= 14 * 24)
                  => (ret # NullWarning /\ ret.text = "consider logging an update")
           /\ Age <= 7 * 24 => ret = NullWarning

\* C26: isWeightStale and dataFreshnessWarning agree at every clock
\* instant: for a logged weight, the data is flagged stale if and only if
\* the warning is the over-14-days 'may be inaccurate' one.
C26_StaleIffInaccurateWarning ==
    (op = "BodyScreen" /\ lastWeightDate # NoDate) =>
        (ret.stale <=> (ret.warning # NullWarning
                        /\ ret.warning.text = "may be inaccurate"))

\* The weekly-load list handed to get4WeekAvgLoad and the indices of its
\* last 4 entries (all of them when there are fewer).
HandedLoads == calcWeeklyLoads(activities)
Last4       == {i \in DOMAIN HandedLoads : i > Len(HandedLoads) - 4}
TotalLoads  == [i \in DOMAIN HandedLoads |-> HandedLoads[i].total_load]

\* C24: get4WeekAvgLoad returns the mean of total_load over the last 4
\* entries of the weekly-load list (over all entries when there are fewer
\* than 4, 0 for an empty list), and in the output of calcWeeklyLoads the
\* last 4 entries are the 4 weeks with the latest week_start.
C24_MeanOfLastFour ==
    op = "get4WeekAvgLoad" =>
        /\ HandedLoads = <<>> => ret = 0
        /\ ret * Cardinality(Last4) = SumOver(Last4, TotalLoads)
        /\ \A i \in Last4 : \A j \in DOMAIN HandedLoads \ Last4 :
               HandedLoads[j].week_start < HandedLoads[i].week_start

\* The set collection in the order given by the permutation p of its
\* indices.
Reordered(p) == [i \in DOMAIN sets |-> sets[p[i]]]

\* C23: every aggregator returns the same output for every permutation of
\* the same input collection: the same records with the same field values
\* (which set is chosen as the record, and its date, included), in the same
\* order.  Stated here for the aggregators of strength sets.
C23_SameForEveryOrder ==
    \A p \in Permutations(DOMAIN sets) :
        /\ op = "calcExerciseSummaries" => calcExerciseSummaries(Reordered(p)) = ret
        /\ op = "findPersonalRecords" => findPersonalRecords(Reordered(p)) = ret
        /\ op = "computeStrengthPRs" => computeStrengthPRs(Reordered(p)) = ret

\* The rows of a result for exercise e.
RowsFor(rows, e) == {i \in DOMAIN rows : rows[i].exercise_id = e}

\* C25: on the same stored sets the server-side functions and the
\* client-side aggregators agree: for every exercise get_exercise_summaries
\* returns the estimated_1rm that calcExerciseSummaries returns, and
\* get_personal_records reports the winning set and the estimated_1rm that
\* findPersonalRecords reports.
C25_ServerEqualsClient ==
    /\ op = "get_exercise_summaries" =>
           LET client == calcExerciseSummaries(sets)
           IN \A i \in DOMAIN ret : \A j \in RowsFor(client, ret[i].exercise_id) :
                  ret[i].estimated_1rm = client[j].estimated_1rm
    /\ op = "get_personal_records" =>
           LET client == findPersonalRecords(sets)
           IN /\ \A i \in DOMAIN ret : RowsFor(client, ret[i].exercise_id) # {}
              /\ \A j \in DOMAIN client : RowsFor(ret, client[j].exercise_id) # {}
              /\ \A i \in DOMAIN ret : \A j \in RowsFor(client, ret[i].exercise_id) :
                     /\ ret[i].weight = client[j].weight
                     /\ ret[i].reps = client[j].reps
                     /\ ret[i].estimated_1rm = client[j].estimated_1rm

\* C28: in every result of calcStrengthCalories with body weight > 0 the
\* method is 'strength_duration' if and only if the duration was estimated
\* from the set count (none was given), and 'strength_intensity' if and only
\* if the caller's duration was used, a given duration of 0 included.
C28_MethodTellsDurationSource ==
    (op = "calcStrengthCalories" /\ weightKg > 0) =>
        /\ (ret.method = "strength_duration") <=> (strengthInput.duration = None)
        /\ (ret.method = "strength_intensity") <=> (strengthInput.duration # None)

\* The session counts and the total loads of the returned weeks.
SessionCounts == [i \in DOMAIN ret |-> ret[i].session_count]
WeekTotals    == [i \in DOMAIN ret |-> ret[i].total_load]

\* C27: across the weeks calcWeeklyLoads returns, the week_start values are
\* pairwise distinct and ascending, the session counts add up to the number
\* of activities given and the total loads add up to the sum of
\* calcActivityLoad over the activities given: every activity is counted in
\* exactly one week.
C27_EveryActivityCountedOnce ==
    op = "calcWeeklyLoads" =>
        /\ \A i, j \in DOMAIN ret : i < j => ret[i].week_start < ret[j].week_start
        /\ SumOver(DOMAIN ret, SessionCounts) = Len(activities)
        /\ SumOver(DOMAIN ret, WeekTotals) = SumOver(DOMAIN activities, LoadOf)
        /\ \A k \in DOMAIN activities :
               Cardinality({i \in DOMAIN ret : k \in CountedIn(ret[i].week_start)}) = 1

\* Three activities of two weeks were given, the later week first: the
\* earlier week is returned first, and 3 sessions and a load of 60 + 24 + 36
\* are accounted for.
C27_Witness ==
    /\ op = "calcWeeklyLoads"
    /\ tzOffset = 0
    /\ activities = <<Activity(15, "cardio", 45), Activity(1, "cardio", None),
                      Activity(15, "cardio", 45)>>
    /\ Len(ret) = 2
    /\ ret[1].week_start = 1 /\ ret[1].total_load = 24 /\ ret[1].session_count = 1
    /\ ret[2].week_start = 15 /\ ret[2].total_load = 72 /\ ret[2].session_count = 2

\* C29: in the open sheet the draft stored under 'perf-os-draft' holds
\* exactly the loggedSets list in memory, and no draft is stored when that
\* list is empty and no restore banner is pending: logging, removing,
\* editing, restoring and discarding never leave the stored draft and the
\* sets on screen different.
C29_DraftHoldsLoggedSets ==
    sheet.open =>
        IF sheet.loggedSets = <<>>
        THEN sheet.draftToRestore = NoDraft => localStorage = NoDraft
        ELSE /\ localStorage # NoDraft
             /\ localStorage.loggedSets = sheet.loggedSets

\* The ids of the activities that have rows in strength_sets.
WithSets == {db.strength_sets[j].activity_id : j \in DOMAIN db.strength_sets}

\* C30: saving a workout is all-or-nothing under failures of the service
\* calls: once no save is in flight, every stored strength activity has its
\* sets stored too, so a failed save leaves no activity behind and a retry
\* that succeeds leaves one activity for the workout, not two.
C30_SaveIsAllOrNothing ==
    ~sheet.saving =>
        \A i \in DOMAIN db.activities :
            db.activities[i].type = "strength" => db.activities[i].id \in WithSets

====
